---- MODULE Spec2Model ----
(***************************************************************************)
(* Model of the cyril mediation layer (crates/cyril-core): the hook engine *)
(* (hooks/types.rs, hooks/config.rs), the terminal manager                 *)
(* (capabilities/terminal.rs) and the protocol client (client.rs).         *)
(*                                                                         *)
(* Text is modelled as sequences of one-character strings, so that path    *)
(* translation, glob matching, trimming and the bounded-buffer cap are     *)
(* computed character by character as the code computes them.              *)
(***************************************************************************)
EXTENDS Integers, Sequences, FiniteSets, TLC

VARIABLES
    target_os,      \* cfg!(target_os): "windows" or "linux", fixed per build
    hooks,          \* KiroClient.hooks: HookRegistry.hooks, in registration order
    files,          \* the host filesystem: native path -> Option<content>
    events,         \* event_tx: AppEvents sent and not yet received by the consumer
    next_id,        \* TerminalManager.next_id
    terminals,      \* TerminalManager.terminals: TerminalId -> TerminalProcess
    mgr_borrow,     \* RefCell<TerminalManager>: the RefMut held across an .await, or none
    issued,         \* history: the ids create_terminal has returned, in order
    event_rx_open,  \* whether the consumer still holds the receiving end of event_tx
    permissions,    \* request_permission calls: their oneshot channel and where its sender is
    last,           \* the most recent handler call: request, steps performed, response
    capIn,          \* cap_output: the buffer handed in
    capOut,         \* cap_output: the buffer afterwards
    regIn,          \* HookRegistry dispatch: context and per-hook command outcomes
    regOut,         \* HookRegistry dispatch: what run_before / run_after did
    cache,          \* ui/cache.rs: a HashCache (map, order, capacity)
    app             \* app.rs: the fields of App the event loop reads and writes

vars == <<target_os, cache, app, hooks, files, events, next_id, terminals, mgr_borrow, issued,
          event_rx_open, permissions, last, capIn, capOut, regIn, regOut>>

----------------------------------------------------------------------------
(* Bounds of the model *)

MaxHooks == 2          \* longest hook configuration explored
MaxTerminals == 2      \* create_terminal calls per manager
MaxChunks == 1         \* chunks each reader task pushes per terminal
MaxEvents == 1         \* events in flight when a call that may emit starts
MaxCreates == 1        \* create_terminal calls explored next to the file calls
MaxPermissions == 2    \* request_permission calls per run

----------------------------------------------------------------------------
(* Option<T>: None is the empty sequence, Some(x) the one-element sequence *)

None == <<>>
Some(x) == <<x>>
IsSome(o) == o # <<>>
Unwrap(o) == o[1]

----------------------------------------------------------------------------
(* Text helpers *)

StartsWith(s, p) == Len(s) >= Len(p) /\ SubSeq(s, 1, Len(p)) = p
Drop(s, n) == SubSeq(s, n + 1, Len(s))
ReplaceChar(s, a, b) == [i \in 1..Len(s) |-> IF s[i] = a THEN b ELSE s[i]]

Lower == <<"a","b","c","d","e","f","g","h","i","j","k","l","m",
           "n","o","p","q","r","s","t","u","v","w","x","y","z">>
Upper == <<"A","B","C","D","E","F","G","H","I","J","K","L","M",
           "N","O","P","Q","R","S","T","U","V","W","X","Y","Z">>

ToAsciiUppercase(ch) ==
    IF \E i \in 1..Len(Lower) : Lower[i] = ch
    THEN Upper[CHOOSE i \in 1..Len(Lower) : Lower[i] = ch]
    ELSE ch

IsWhitespace(ch) == ch \in {" ", "\n", "\t", "\r"}

RECURSIVE TrimStart(_)
TrimStart(s) ==
    IF s # <<>> /\ IsWhitespace(s[1]) THEN TrimStart(Tail(s)) ELSE s

RECURSIVE TrimEnd(_)
TrimEnd(s) ==
    IF s # <<>> /\ IsWhitespace(s[Len(s)]) THEN TrimEnd(SubSeq(s, 1, Len(s) - 1)) ELSE s

TrimNothing(s) == s

Trim(s) == TrimEnd(TrimStart(s))

----------------------------------------------------------------------------
(* platform/path.rs.  A path is the sequence of the bytes of its UTF-8     *)
(* text: an ASCII byte is written as its character, a two-byte character   *)
(* as the lead byte "L2" followed by the continuation byte "cb".           *)

IsContinuation(b) == b = "cb"

MntPrefix == <<"/", "m", "n", "t", "/">>

ExtendedPrefix == <<"\\", "\\", "?", "\\">>

IsAsciiAlphabetic(ch) ==
    \E i \in 1..Len(Lower) : ch = Lower[i] \/ ch = Upper[i]

ToAsciiLowercase(ch) ==
    IF \E i \in 1..Len(Upper) : Upper[i] = ch
    THEN Lower[CHOOSE i \in 1..Len(Upper) : Upper[i] = ch]
    ELSE ch

(* str::strip_prefix(..).unwrap_or(s) *)
StripPrefixOrSelf(s, p) == IF StartsWith(s, p) THEN Drop(s, Len(p)) ELSE s

RECURSIVE TrimStartMatches(_, _)
TrimStartMatches(s, ch) ==
    IF s # <<>> /\ s[1] = ch THEN TrimStartMatches(Tail(s), ch) ELSE s

WinToWslKeepsCase(path) ==
    LET s == StripPrefixOrSelf(path, ExtendedPrefix) IN
    IF Len(s) >= 2 /\ s[2] = ":"
    THEN LET rest == TrimStartMatches(ReplaceChar(Drop(s, 2), "\\", "/"), "/") IN
         IF rest = <<>> THEN MntPrefix \o <<s[1]>>
         ELSE MntPrefix \o <<s[1], "/">> \o rest
    ELSE ReplaceChar(s, "\\", "/")

(* win_to_wsl: the test for a drive is on the second byte only *)
WinToWsl(path) ==
    LET s == StripPrefixOrSelf(path, ExtendedPrefix) IN
    IF Len(s) >= 2 /\ s[2] = ":"
    THEN LET drive == ToAsciiLowercase(s[1])
             rest == TrimStartMatches(ReplaceChar(Drop(s, 2), "\\", "/"), "/")
         IN  IF rest = <<>> THEN MntPrefix \o <<drive>>
             ELSE MntPrefix \o <<drive, "/">> \o rest
    ELSE ReplaceChar(s, "\\", "/")

(* What a caller gets in place of a path when the function panics: the     *)
(* slice &rest[1..] of a text whose first character is longer than a byte. *)
PanicPath == <<"panic: byte index 1 is not a char boundary">>

WslToWinKeepsCase(path) ==
    IF StartsWith(path, MntPrefix) /\ Len(path) > Len(MntPrefix)
    THEN LET rest == Drop(path, Len(MntPrefix))
             after_drive == Drop(rest, 1)
         IN  IF after_drive = <<>> \/ after_drive[1] = "/"
             THEN <<rest[1], ":", "\\">>
                     \o ReplaceChar(Drop(after_drive, 1), "/", "\\")
             ELSE path
    ELSE path

WslToWin(path) ==
    IF StartsWith(path, MntPrefix)
    THEN LET rest == Drop(path, Len(MntPrefix)) IN
         IF Len(rest) >= 1
         THEN LET drive == ToAsciiUppercase(rest[1])
                  after_drive == Drop(rest, 1)
              IN  IF after_drive # <<>> /\ IsContinuation(after_drive[1])
                  THEN PanicPath
                  ELSE IF after_drive = <<>> \/ after_drive[1] = "/"
                  THEN LET suffix == IF after_drive = <<>> THEN <<>>
                                     ELSE Drop(after_drive, 1)
                       IN  IF suffix = <<>>
                           THEN <<drive, ":", "\\">>
                           ELSE <<drive, ":", "\\">> \o ReplaceChar(suffix, "/", "\\")
                  ELSE path
         ELSE path
    ELSE path

ToNative(path) ==
    IF target_os = "windows" THEN WslToWin(path) ELSE path

(* looks_like_windows_path and looks_like_wsl_mount_path *)
LooksLikeWindowsPathNoStrip(str) ==
    /\ Len(str) >= 3
    /\ IsAsciiAlphabetic(str[1])
    /\ str[2] = ":"
    /\ str[3] \in {"\\", "/"}

LooksLikeWindowsPath(str) ==
    LET s == StripPrefixOrSelf(str, ExtendedPrefix) IN
    /\ Len(s) >= 3
    /\ IsAsciiAlphabetic(s[1])
    /\ s[2] = ":"
    /\ s[3] \in {"\\", "/"}

LooksLikeWslMountPath(s) ==
    /\ StartsWith(s, MntPrefix)
    /\ Len(s) > Len(MntPrefix)
    /\ IsAsciiAlphabetic(s[Len(MntPrefix) + 1])

(* std::path::Path::file_name for the paths of the model: the text after   *)
(* the last separator, None when that text is empty or "..".               *)
IsSeparator(ch) ==
    IF target_os = "windows" THEN ch \in {"\\", "/"} ELSE ch = "/"

RECURSIVE LastComponent(_)
LastComponent(p) ==
    IF p = <<>> \/ IsSeparator(p[Len(p)]) THEN <<>>
    ELSE LastComponent(SubSeq(p, 1, Len(p) - 1)) \o <<p[Len(p)]>>

FileName(path) ==
    LET stripped == IF path # <<>> /\ IsSeparator(path[Len(path)])
                    THEN SubSeq(path, 1, Len(path) - 1) ELSE path
        name == LastComponent(stripped)
    IN  IF name = <<>> \/ name = <<".", ".">> THEN None ELSE Some(name)

----------------------------------------------------------------------------
(* glob::Pattern as hooks/config.rs uses it: Pattern::new and matches *)

PatternNewOk(p) ==
    \A i \in 1..Len(p) : p[i] = "[" => \E j \in (i + 1)..Len(p) : p[j] = "]"

RECURSIVE PatternMatches(_, _)
PatternMatches(p, s) ==
    IF p = <<>> THEN s = <<>>
    ELSE IF p[1] = "*" THEN \E k \in 0..Len(s) : PatternMatches(Tail(p), Drop(s, k))
    ELSE IF s = <<>> THEN FALSE
    ELSE IF p[1] = "?" THEN PatternMatches(Tail(p), Tail(s))
    ELSE p[1] = s[1] /\ PatternMatches(Tail(p), Tail(s))

----------------------------------------------------------------------------
(* hooks/types.rs: HookTiming, HookTarget, HookContext, HookResult *)

HookTimings == {"Before", "After"}
HookTargets == {"FsRead", "FsWrite", "Terminal", "TurnEnd"}

HookContext(target, timing, path, content, command) ==
    [target |-> target, timing |-> timing, path |-> path,
     content |-> content, command |-> command]

(* The text a hook result carries, kept as the pieces the format! call joins *)
Msg(fmt, name, code, out) == [fmt |-> fmt, name |-> name, code |-> code, out |-> out]
NoMsg == Msg("", "", 0, <<>>)

Continue == [kind |-> "Continue", content |-> None, text |-> NoMsg]
ModifiedArgs(content) == [kind |-> "ModifiedArgs", content |-> content, text |-> NoMsg]
Blocked(reason) == [kind |-> "Blocked", content |-> None, text |-> reason]
FeedbackPrompt(text) == [kind |-> "FeedbackPrompt", content |-> None, text |-> text]

----------------------------------------------------------------------------
(* hooks/config.rs: ShellHookDef, GlobFilter, ShellHook *)

ShellHookDef(name, event, pattern, feedback) ==
    [name |-> name, event |-> event, pattern |-> pattern, feedback |-> feedback]

ParseEvent(event) ==
    CASE event = "beforeRead"     -> Some(<<"Before", "FsRead">>)
      [] event = "afterRead"      -> Some(<<"After", "FsRead">>)
      [] event = "beforeWrite"    -> Some(<<"Before", "FsWrite">>)
      [] event = "afterWrite"     -> Some(<<"After", "FsWrite">>)
      [] event = "beforeTerminal" -> Some(<<"Before", "Terminal">>)
      [] event = "afterTerminal"  -> Some(<<"After", "Terminal">>)
      [] event = "turnEnd"        -> Some(<<"After", "TurnEnd">>)
      [] OTHER                    -> None

MatchAll == [tag |-> "MatchAll", pat |-> <<>>]
Invalid == [tag |-> "Invalid", pat |-> <<>>]
Pattern(p) == [tag |-> "Pattern", pat |-> p]

FromDefRejectsBadGlob(def) ==
    LET ev == ParseEvent(def.event) IN
    IF ev = None \/ (def.pattern # None /\ ~PatternNewOk(Unwrap(def.pattern))) THEN None
    ELSE Some([impl |-> "ShellHook", def |-> def,
               timing |-> Unwrap(ev)[1], target |-> Unwrap(ev)[2],
               glob |-> IF def.pattern = None THEN MatchAll
                        ELSE Pattern(Unwrap(def.pattern))])

(* ShellHook::from_def: None for an unknown event; the glob is compiled once *)
FromDef(def) ==
    LET ev == ParseEvent(def.event) IN
    IF ev = None THEN None
    ELSE Some([impl |-> "ShellHook", def |-> def,
               timing |-> Unwrap(ev)[1], target |-> Unwrap(ev)[2],
               glob |-> IF def.pattern = None THEN MatchAll
                        ELSE IF PatternNewOk(Unwrap(def.pattern))
                             THEN Pattern(Unwrap(def.pattern))
                             ELSE Invalid])

(* A Hook implementation other than ShellHook (the registry takes any      *)
(* Box<dyn Hook>): its run may return any HookResult.                      *)
DynHook(name, timing, target) ==
    [impl |-> "Dyn", def |-> ShellHookDef(name, "", None, FALSE),
     timing |-> timing, target |-> target, glob |-> MatchAll]

(* load_hooks_config: definitions with an unknown event are skipped *)
RECURSIVE LoadHooksConfig(_)
LoadHooksConfig(defs) ==
    IF defs = <<>> THEN <<>>
    ELSE LET h == FromDef(Head(defs)) IN
         (IF h = None THEN <<>> ELSE <<Unwrap(h)>>) \o LoadHooksConfig(Tail(defs))

MatchesPathWholeOnly(h, path) ==
    CASE h.glob.tag = "MatchAll" -> TRUE
      [] h.glob.tag = "Invalid" -> FALSE
      [] h.glob.tag = "Pattern" -> PatternMatches(h.glob.pat, path)

MatchesPath(h, path) ==
    CASE h.glob.tag = "MatchAll" -> TRUE
      [] h.glob.tag = "Invalid" -> FALSE
      [] h.glob.tag = "Pattern" ->
            \/ PatternMatches(h.glob.pat, path)
            \/ LET f == FileName(path) IN
               IF IsSome(f) THEN PatternMatches(h.glob.pat, Unwrap(f)) ELSE FALSE

(* The first step of ShellHook::run: does the command get executed at all *)
PassesFilter(h, ctx) ==
    IF IsSome(ctx.path) THEN MatchesPath(h, Unwrap(ctx.path)) ELSE TRUE

(* What running the hook's command did, as the operating system decides:   *)
(* spawned = FALSE is the Err arm of Command::output().                    *)
ExecOutcome(spawned, code, stdout, stderr) ==
    [spawned |-> spawned, code |-> code, stdout |-> stdout, stderr |-> stderr]

ShellHookRunSpawnAsExit(h, ctx, o) ==
    IF ~PassesFilter(h, ctx) THEN Continue
    ELSE LET code == IF o.spawned THEN o.code ELSE 1
             combined == Msg("failed", h.def.name, code, o.stdout \o o.stderr)
         IN  IF code # 0
             THEN IF h.def.feedback THEN FeedbackPrompt(combined)
                  ELSE IF h.timing = "Before" THEN Blocked(combined)
                  ELSE Continue
             ELSE IF h.def.feedback /\ Trim(o.stdout \o o.stderr) # <<>>
                  THEN FeedbackPrompt(Msg("output", h.def.name, 0, o.stdout \o o.stderr))
                  ELSE Continue

ShellHookRunQuietFailure(h, ctx, o) ==
    IF ~PassesFilter(h, ctx) THEN Continue
    ELSE IF o.spawned
    THEN IF h.def.feedback /\ Trim(o.stdout \o o.stderr) # <<>>
         THEN FeedbackPrompt(Msg(IF o.code # 0 THEN "failed" ELSE "output",
                                 h.def.name, o.code, o.stdout \o o.stderr))
         ELSE IF o.code # 0 /\ h.timing = "Before" /\ ~h.def.feedback
              THEN Blocked(Msg("failed", h.def.name, o.code, o.stdout \o o.stderr))
              ELSE Continue
    ELSE IF h.timing = "Before"
         THEN Blocked(Msg("failed to execute", h.def.name, 0, <<>>))
         ELSE Continue

ShellHookRunSpawnFailOpen(h, ctx, o) ==
    IF ~PassesFilter(h, ctx) THEN Continue
    ELSE IF o.spawned
    THEN IF o.code # 0
         THEN LET combined == Msg("failed", h.def.name, o.code, o.stdout \o o.stderr) IN
              IF h.def.feedback THEN FeedbackPrompt(combined)
              ELSE IF h.timing = "Before" THEN Blocked(combined)
              ELSE Continue
         ELSE IF h.def.feedback /\ Trim(o.stdout \o o.stderr) # <<>>
              THEN FeedbackPrompt(Msg("output", h.def.name, 0, o.stdout \o o.stderr))
              ELSE Continue
    ELSE Continue

ShellHookRun(h, ctx, o) ==
    IF ~PassesFilter(h, ctx) THEN Continue
    ELSE IF o.spawned
    THEN IF o.code # 0
         THEN LET combined == Msg("failed", h.def.name, o.code, o.stdout \o o.stderr) IN
              IF h.def.feedback THEN FeedbackPrompt(combined)
              ELSE IF h.timing = "Before" THEN Blocked(combined)
              ELSE Continue
         ELSE IF h.def.feedback /\ Trim(o.stdout \o o.stderr) # <<>>
              THEN FeedbackPrompt(Msg("output", h.def.name, 0, o.stdout \o o.stderr))
              ELSE Continue
    ELSE IF h.timing = "Before"
         THEN Blocked(Msg("failed to execute", h.def.name, 0, <<>>))
         ELSE Continue

(* Hook::run through the trait object.  An oracle o carries the outcome of *)
(* the shell command (o.exec) and, for other implementations, the result   *)
(* they choose to return (o.dyn).                                          *)
HookRun(h, ctx, o) ==
    IF h.impl = "ShellHook" THEN ShellHookRun(h, ctx, o.exec) ELSE o.dyn

----------------------------------------------------------------------------
(* hooks/types.rs: HookRegistry::run_before and run_after.  Besides the    *)
(* value returned, `ran` lists the hooks whose run was awaited, in order.  *)

Ran(i, r) == [hook |-> i, res |-> r]

RECURSIVE RunBeforeFrom(_, _, _, _)
RunBeforeFrom(reg, ctx, outs, i) ==
    IF i > Len(reg) THEN [result |-> Continue, ran |-> <<>>]
    ELSE IF reg[i].timing = "Before" /\ reg[i].target = ctx.target
    THEN LET r == HookRun(reg[i], ctx, outs[i]) IN
         IF r.kind = "Continue"
         THEN LET rest == RunBeforeFrom(reg, ctx, outs, i + 1) IN
              [result |-> rest.result, ran |-> <<Ran(i, r)>> \o rest.ran]
         ELSE [result |-> r, ran |-> <<Ran(i, r)>>]
    ELSE RunBeforeFrom(reg, ctx, outs, i + 1)

RunBeforeKeepsGoing(reg, ctx, outs) ==
    LET RECURSIVE Go(_)
        Go(i) ==
            IF i > Len(reg) THEN [result |-> Continue, ran |-> <<>>]
            ELSE IF reg[i].timing = "Before" /\ reg[i].target = ctx.target
            THEN LET r == HookRun(reg[i], ctx, outs[i])
                     rest == Go(i + 1)
                 IN  [result |-> IF r.kind = "Continue" THEN rest.result ELSE r,
                      ran |-> <<Ran(i, r)>> \o rest.ran]
            ELSE Go(i + 1)
    IN  Go(1)

RunBefore(reg, ctx, outs) == RunBeforeFrom(reg, ctx, outs, 1)

RECURSIVE RunAfterFrom(_, _, _, _)
RunAfterFrom(reg, ctx, outs, i) ==
    IF i > Len(reg) THEN [results |-> <<>>, ran |-> <<>>]
    ELSE LET rest == RunAfterFrom(reg, ctx, outs, i + 1) IN
         IF reg[i].timing = "After" /\ reg[i].target = ctx.target
         THEN LET r == HookRun(reg[i], ctx, outs[i]) IN
              [results |-> (IF r.kind # "Continue" THEN <<r>> ELSE <<>>) \o rest.results,
               ran |-> <<Ran(i, r)>> \o rest.ran]
         ELSE rest

RunAfterStopsAtFirst(reg, ctx, outs) ==
    LET b == RunBeforeFrom([i \in 1..Len(reg) |->
                               [reg[i] EXCEPT !.timing =
                                   IF reg[i].timing = "After" THEN "Before" ELSE "After"]],
                           ctx, outs, 1)
    IN  [results |-> IF b.result.kind = "Continue" THEN <<>> ELSE <<b.result>>,
         ran |-> b.ran]

RunAfterAnyTarget(reg, ctx, outs) ==
    LET RECURSIVE Go(_)
        Go(i) ==
           IF i > Len(reg) THEN [results |-> <<>>, ran |-> <<>>]
           ELSE LET rest == Go(i + 1) IN
                IF reg[i].timing = "After"
                THEN LET r == HookRun(reg[i], ctx, outs[i]) IN
                     [results |-> (IF r.kind # "Continue" THEN <<r>> ELSE <<>>) \o rest.results,
                      ran |-> <<Ran(i, r)>> \o rest.ran]
                ELSE rest
    IN  Go(1)

RunAfter(reg, ctx, outs) == RunAfterFrom(reg, ctx, outs, 1)

----------------------------------------------------------------------------
(* capabilities/terminal.rs: the bounded-buffer cap.                       *)
(* Terminal output is modelled byte by byte.  An ASCII byte is written as  *)
(* its character; a multi-byte character is a lead byte "L2", "L3" or "L4" *)
(* followed by one, two or three continuation bytes "cb".                  *)

LeadWidth(b) ==
    CASE b = "L2" -> 2
      [] b = "L3" -> 3
      [] b = "L4" -> 4
      [] OTHER    -> 1

(* The invariant of Rust's String: the bytes are well-formed UTF-8 *)
RECURSIVE ValidUtf8(_)
ValidUtf8(s) ==
    IF s = <<>> THEN TRUE
    ELSE LET w == LeadWidth(s[1]) IN
         /\ ~IsContinuation(s[1])
         /\ Len(s) >= w
         /\ \A i \in 2..w : IsContinuation(s[i])
         /\ (Len(s) > w => ~IsContinuation(s[w + 1]))
         /\ ValidUtf8(Drop(s, w))

(* MAX_ACCUMULATED_OUTPUT is 1024 * 1024 in the code; the model scales it  *)
(* down, keeping it above the length of the marker.                        *)
MaxAccumulatedOutput == 24

PREFIX == <<"[","o","u","t","p","u","t"," ","t","r","u","n","c","a","t","e","d","]","\n">>

(* str::is_char_boundary *)
IsCharBoundary(s, index) ==
    \/ index = 0
    \/ index = Len(s)
    \/ (index < Len(s) /\ ~IsContinuation(s[index + 1]))

FloorCharBoundary(s, index) ==
    CHOOSE b \in 0..index :
        IsCharBoundary(s, b) /\ \A c \in 0..index : IsCharBoundary(s, c) => c <= b

(* str::ceil_char_boundary *)
CeilCharBoundary(s, index) ==
    CHOOSE b \in index..Len(s) :
        IsCharBoundary(s, b) /\ \A c \in index..Len(s) : IsCharBoundary(s, c) => b <= c

SaturatingSub(a, b) == IF a >= b THEN a - b ELSE 0

CapOutput(buf, max_len) ==
    IF Len(buf) <= max_len THEN buf
    ELSE LET max_tail == SaturatingSub(max_len, Len(PREFIX))
             start == Len(buf) - max_tail
             boundary == CeilCharBoundary(buf, start)
         IN  PREFIX \o Drop(buf, boundary)

----------------------------------------------------------------------------
(* capabilities/terminal.rs: TerminalId, TerminalProcess, TerminalManager  *)

TerminalIdNew(n) == <<"term-", n>>

ErrMsg(fmt) == Msg(fmt, "", 0, <<>>)

Ok(v) == [kind |-> "ok", value |-> v]
Err(m) == [kind |-> "err", value |-> m]

(* A freshly spawned terminal.  child.code is the Option<i32> of           *)
(* ExitStatus::code once the child has exited; stdout_left / stderr_left   *)
(* bound what the two reader tasks still push; pushed, returned and        *)
(* truncated are history kept for the statements about get_output.         *)
NewTerminalProcess ==
    [child |-> [state |-> "running", code |-> None],
     output_rx |-> <<>>,
     accumulated_output |-> <<>>,
     stdout_left |-> MaxChunks,
     stderr_left |-> MaxChunks,
     pushed |-> <<>>,
     returned |-> <<>>,
     truncated |-> FALSE]

Manager == [terminals |-> terminals, next_id |-> next_id]

RECURSIVE Flatten(_)
Flatten(chunks) == IF chunks = <<>> THEN <<>> ELSE Head(chunks) \o Flatten(Tail(chunks))

NextIdStuck(n) == n

NextIdAfter(n) == n + 1

(* create_terminal: the id is taken and the counter advanced before the    *)
(* spawn is attempted; a failed spawn returns early, registering nothing.  *)
MgrCreateTerminal(mgr, command, spawn_ok) ==
    LET id == TerminalIdNew(mgr.next_id)
        n == NextIdAfter(mgr.next_id)
    IN  IF ~spawn_ok
        THEN [terminals |-> mgr.terminals, next_id |-> n,
              result |-> Err(ErrMsg("Failed to spawn terminal command"))]
        ELSE [terminals |-> [t \in DOMAIN mgr.terminals \cup {id} |->
                                IF t = id THEN NewTerminalProcess ELSE mgr.terminals[t]],
              next_id |-> n,
              result |-> Ok(id)]

DrainKeepsQueue(term) ==
    [term EXCEPT !.accumulated_output = @ \o Flatten(term.output_rx)]

(* while let Ok(chunk) = output_rx.try_recv() { accumulated_output.push_str } *)
Drain(term) ==
    [term EXCEPT !.accumulated_output = @ \o Flatten(term.output_rx),
                 !.output_rx = <<>>]

(* self.terminals.get_mut(id) / remove(id) finding an entry *)
Lookup(ts, id) == id \in DOMAIN ts

MgrGetOutput(mgr, id) ==
    IF ~Lookup(mgr.terminals, id)
    THEN [terminals |-> mgr.terminals, next_id |-> mgr.next_id,
          result |-> Err(ErrMsg("Unknown terminal"))]
    ELSE LET drained == Drain(mgr.terminals[id])
             output == CapOutput(drained.accumulated_output, MaxAccumulatedOutput)
             term == [drained EXCEPT
                        !.accumulated_output = <<>>,
                        !.returned = @ \o output,
                        !.truncated = @ \/ output # drained.accumulated_output]
         IN  [terminals |-> [mgr.terminals EXCEPT ![id] = term],
              next_id |-> mgr.next_id,
              result |-> Ok(output)]

(* Child::kill on a running child: the process is killed, so it ends       *)
(* without an exit code on unix and with code 1 on windows.                *)
KilledCode == IF target_os = "windows" THEN Some(1) ELSE None

(* Drop of a TerminalProcess: the Child was spawned with kill_on_drop, so a *)
(* child still running is killed; the receiver goes with whatever it held. *)
DropTerminalProcess(term) ==
    [process |-> [term EXCEPT !.child = IF @.state = "running"
                                        THEN [state |-> "exited", code |-> KilledCode]
                                        ELSE @,
                              !.output_rx = <<>>],
     killed |-> term.child.state = "running"]

MgrReleaseLenient(mgr, id) ==
    [terminals |-> [t \in DOMAIN mgr.terminals \ {id} |-> mgr.terminals[t]],
     next_id |-> mgr.next_id,
     dropped |-> IF Lookup(mgr.terminals, id)
                 THEN Some(DropTerminalProcess(mgr.terminals[id])) ELSE None,
     result |-> Ok(<<>>)]

MgrReleaseClearsAll(mgr, id) ==
    IF ~Lookup(mgr.terminals, id)
    THEN [terminals |-> mgr.terminals, next_id |-> mgr.next_id, dropped |-> None,
          result |-> Err(ErrMsg("Unknown terminal"))]
    ELSE [terminals |-> <<>>,
          next_id |-> mgr.next_id,
          dropped |-> Some(DropTerminalProcess(mgr.terminals[id])),
          result |-> Ok(<<>>)]

(* release: remove(id), an error when nothing was removed; the removed     *)
(* TerminalProcess is dropped at the end of the statement.                 *)
MgrRelease(mgr, id) ==
    IF ~Lookup(mgr.terminals, id)
    THEN [terminals |-> mgr.terminals, next_id |-> mgr.next_id, dropped |-> None,
          result |-> Err(ErrMsg("Unknown terminal"))]
    ELSE [terminals |-> [t \in DOMAIN mgr.terminals \ {id} |-> mgr.terminals[t]],
          next_id |-> mgr.next_id,
          dropped |-> Some(DropTerminalProcess(mgr.terminals[id])),
          result |-> Ok(<<>>)]

(* status.code().unwrap_or(-1) *)
ExitCodeOrSentinel(code) == IF IsSome(code) THEN Unwrap(code) ELSE -1

----------------------------------------------------------------------------
(* client.rs: KiroClient *)

(* internal_err: an ACP error with code -32603 and the given message *)
InternalErr(msg) == [code |-> -32603, message |-> msg]

Panic == [kind |-> "panic", value |-> ErrMsg("already borrowed: BorrowMutError")]

(* What the handler does with the value run_before returned: Some(error)   *)
(* fails the call before the effect, None lets it proceed.                 *)
ReadGate(r) ==
    IF r.kind = "Blocked" THEN Some(InternalErr(r.text)) ELSE None

WriteGateOpen(r, content) == [deny |-> None, content |-> content]

WriteGateKeepsOriginal(r, content) ==
    IF r.kind = "Blocked" THEN [deny |-> Some(InternalErr(r.text)), content |-> content]
    ELSE [deny |-> None, content |-> content]

WriteGate(r, content) ==
    CASE r.kind = "Blocked" -> [deny |-> Some(InternalErr(r.text)), content |-> content]
      [] r.kind = "ModifiedArgs" /\ IsSome(r.content) ->
            [deny |-> None, content |-> Unwrap(r.content)]
      [] OTHER -> [deny |-> None, content |-> content]

TerminalGate(r) ==
    IF r.kind = "Blocked" THEN Some(InternalErr(r.text)) ELSE None

(* A phase of a call as the handler ran it: the HookContext it built for   *)
(* the phase and what the dispatch did with it.                            *)
BeforePhase(ctx, d) == [result |-> d.result, ran |-> d.ran, ctx |-> ctx]
AfterPhase(ctx, d) == [results |-> d.results, ran |-> d.ran, ctx |-> ctx]

WriteResponseStrict(after_results) ==
    IF after_results = <<>> THEN Ok(<<>>)
    ELSE Err(InternalErr(after_results[1].text))

(* Ok(acp::WriteTextFileResponse::new()) once the After phase is over *)
WriteResponse(after_results) == Ok(<<>>)

NoBefore == [result |-> Continue, ran |-> <<>>]
NoAfter == [results |-> <<>>, ran |-> <<>>]

(* The record of one handler call: the request, the outcomes the           *)
(* environment chose for the hook commands (outs), what run_before and     *)
(* run_after did, the effect steps performed in order, and the response.   *)
Call(op, path, content, command, id, outs, before, steps, after, emitted, resp) ==
    [op |-> op, path |-> path, content |-> content, command |-> command, id |-> id,
     outs |-> outs, before |-> before, steps |-> steps, after |-> after,
     emitted |-> emitted, resp |-> resp]

NoCall == Call("none", None, None, None, None, <<>>, NoBefore, <<>>, NoAfter, <<>>,
               Ok(<<>>))

(* KiroClient::emit: a send on a closed channel is logged and dropped *)
Emit(chan, open, evs) == IF open THEN chan \o evs ELSE chan

HookFeedback(text) == [type |-> "HookFeedback", text |-> text]

FeedbackEventsForAll(results) ==
    [k \in 1..Len(results) |-> HookFeedback(results[k].text)]

(* the emit loop of write_text_file: one event per FeedbackPrompt result *)
FeedbackEvents(results) ==
    LET IsPrompt(r) == r.kind = "FeedbackPrompt"
        prompts == SelectSeq(results, IsPrompt)
    IN  [k \in 1..Len(prompts) |-> HookFeedback(prompts[k].text)]

----------------------------------------------------------------------------
(* Inputs the model explores *)

PathARs == <<"/","m","n","t","/","c","/","a",".","r","s">>
PathBPy == <<"/","m","n","t","/","c","/","b",".","p","y">>
AgentPaths == {PathARs, PathBPy}

ContentV1 == <<"v","1">>
ContentV2 == <<"v","2">>
Contents == {ContentV1}

Commands == {<<"l","s">>}

GlobStarRs == <<"*",".","r","s">>
GlobBad == <<"[","b">>

ExecFailed == ExecOutcome(FALSE, 0, <<>>, <<>>)
ExecOutcomes ==
    { ExecFailed,
      ExecOutcome(TRUE, 0, <<>>, <<>>),
      ExecOutcome(TRUE, 0, <<"o","k">>, <<>>),
      ExecOutcome(TRUE, 1, <<"o">>, <<"e">>) }

DynResults ==
    { Continue, ModifiedArgs(Some(ContentV2)), ModifiedArgs(None),
      Blocked(ErrMsg("denied")), FeedbackPrompt(ErrMsg("note")) }

Oracle(exec, dyn) == [exec |-> exec, dyn |-> dyn]
DefaultOracle == Oracle(ExecOutcome(TRUE, 0, <<>>, <<>>), Continue)

(* The outcomes the environment may choose for hook h in a call on target: *)
(* a hook for another target is never run, so its outcome is left fixed.   *)
OraclesFor(h, target, execs) ==
    IF h.target # target THEN {DefaultOracle}
    ELSE IF h.impl = "ShellHook"
    THEN { Oracle(e, Continue) : e \in execs }
    ELSE { Oracle(DefaultOracle.exec, d) : d \in DynResults }

RECURSIVE OutsFrom(_, _, _, _)
OutsFrom(reg, target, execs, i) ==
    IF i > Len(reg) THEN { <<>> }
    ELSE { <<o>> \o rest : o \in OraclesFor(reg[i], target, execs),
                           rest \in OutsFrom(reg, target, execs, i + 1) }

OutsFor(reg, target, execs) == OutsFrom(reg, target, execs, 1)

(* What a registry is built from: hook definitions of the configuration    *)
(* file, and a hook of another implementation registered directly.         *)
HookSources ==
    { ShellHookDef("h1", "beforeWrite", None, FALSE),
      ShellHookDef("h2", "beforeWrite", Some(GlobStarRs), TRUE),
      ShellHookDef("h3", "beforeWrite", Some(GlobBad), FALSE),
      ShellHookDef("h4", "afterWrite", None, TRUE),
      ShellHookDef("h5", "beforeRead", None, TRUE),
      ShellHookDef("h6", "beforeTerminal", Some(GlobBad), FALSE),
      DynHook("d1", "Before", "FsWrite"),
      DynHook("d2", "After", "FsWrite"),
      DynHook("d3", "Before", "FsRead"),
      DynHook("d4", "Before", "Terminal") }

(* load_hooks_config followed by HookRegistry::register, in order: a       *)
(* definition goes through ShellHook::from_def, any other hook is pushed   *)
(* as it is.                                                               *)
RECURSIVE RegisterAll(_)
RegisterAll(srcs) ==
    IF srcs = <<>> THEN <<>>
    ELSE LET s == Head(srcs) IN
         (IF "impl" \in DOMAIN s THEN <<s>> ELSE LoadHooksConfig(<<s>>))
             \o RegisterAll(Tail(srcs))

SeqsUpTo(S, n) == UNION { [1..k -> S] : k \in 0..n }

Registries == { RegisterAll(srcs) : srcs \in SeqsUpTo(HookSources, MaxHooks) }

NativePaths == { ToNative(p) : p \in AgentPaths }

----------------------------------------------------------------------------
(* client.rs: the capability handlers with a Before phase *)

ReadTextFile(path, outs, io_ok) ==
    LET native_path == ToNative(path)
        hook_ctx == HookContext("FsRead", "Before", Some(native_path), None, None)
        before == BeforePhase(hook_ctx, RunBefore(hooks, hook_ctx, outs))
        deny == ReadGate(before.result)
        found == io_ok /\ IsSome(files[native_path])
    IN  /\ last.op = "none"
        /\ last' =
             IF IsSome(deny)
             THEN Call("read_text_file", Some(native_path), None, None, None, outs,
                       before, <<>>, NoAfter, <<>>, Err(Unwrap(deny)))
             ELSE Call("read_text_file", Some(native_path), None, None, None, outs,
                       before, <<"read">>, NoAfter, <<>>,
                       IF found THEN Ok(Unwrap(files[native_path]))
                       ELSE Err(InternalErr(ErrMsg("Failed to read file"))))
        /\ UNCHANGED <<target_os, cache, app, hooks, files, events, next_id, terminals, mgr_borrow,
                       issued, event_rx_open, permissions, capIn, capOut, regIn, regOut>>

WriteTextFile(path, content, outs, io_ok) ==
    LET native_path == ToNative(path)
        hook_ctx == HookContext("FsWrite", "Before", Some(native_path), Some(content), None)
        before == BeforePhase(hook_ctx, RunBefore(hooks, hook_ctx, outs))
        gate == WriteGate(before.result, content)
        after_ctx == HookContext("FsWrite", "After", Some(native_path),
                                 Some(gate.content), None)
        after == AfterPhase(after_ctx, RunAfter(hooks, after_ctx, outs))
        evs == FeedbackEvents(after.results)
    IN  /\ last.op = "none"
        /\ Len(events) < MaxEvents
        /\ IF IsSome(gate.deny)
           THEN /\ last' = Call("write_text_file", Some(native_path), Some(content), None,
                                None, outs, before, <<>>, NoAfter, <<>>,
                                Err(Unwrap(gate.deny)))
                /\ UNCHANGED <<files, events>>
           ELSE IF ~io_ok
           THEN /\ last' = Call("write_text_file", Some(native_path), Some(content), None,
                                None, outs, before, <<"write">>, NoAfter, <<>>,
                                Err(InternalErr(ErrMsg("Failed to write file"))))
                /\ UNCHANGED <<files, events>>
           ELSE /\ files' = [files EXCEPT ![native_path] = Some(gate.content)]
                /\ events' = Emit(events, event_rx_open, evs)
                /\ last' = Call("write_text_file", Some(native_path), Some(content), None,
                                None, outs, before,
                                <<"write", "run_after">>
                                    \o [i \in 1..Len(evs) |-> "emit"],
                                after, evs, WriteResponse(after.results))
        /\ UNCHANGED <<target_os, cache, app, hooks, next_id, terminals, mgr_borrow, issued,
                       event_rx_open, permissions, capIn, capOut, regIn, regOut>>

CreateTerminal(command, outs, spawn_ok) ==
    LET hook_ctx == HookContext("Terminal", "Before", None, None, Some(command))
        before == BeforePhase(hook_ctx, RunBefore(hooks, hook_ctx, outs))
        deny == TerminalGate(before.result)
        made == MgrCreateTerminal(Manager, command, spawn_ok)
    IN  /\ last.op = "none"
        /\ IF IsSome(deny)
           THEN /\ last' = Call("create_terminal", None, None, Some(command), None, outs,
                                before, <<>>, NoAfter, <<>>, Err(Unwrap(deny)))
                /\ UNCHANGED <<next_id, terminals, issued>>
           ELSE IF IsSome(mgr_borrow)
           THEN /\ last' = Call("create_terminal", None, None, Some(command), None, outs,
                                before, <<>>, NoAfter, <<>>, Panic)
                /\ UNCHANGED <<next_id, terminals, issued>>
           ELSE /\ next_id' = made.next_id
                /\ terminals' = made.terminals
                /\ issued' = IF made.result.kind = "ok"
                             THEN Append(issued, made.result.value) ELSE issued
                /\ last' = Call("create_terminal", None, None, Some(command), None, outs,
                                before,
                                IF made.result.kind = "ok"
                                THEN <<"spawn", "register">> ELSE <<"spawn">>,
                                NoAfter, <<>>,
                                IF made.result.kind = "ok" THEN made.result
                                ELSE Err(InternalErr(made.result.value)))
        /\ UNCHANGED <<target_os, cache, app, hooks, files, events, mgr_borrow, event_rx_open,
                       permissions, capIn, capOut, regIn, regOut>>

(* The consumer takes the next event off the channel; with a               *)
(* PermissionRequest it takes hold of the responder the event carries.     *)
RecvEvent ==
    /\ last.op = "none"
    /\ event_rx_open
    /\ events # <<>>
    /\ events' = Tail(events)
    /\ permissions' =
          IF Head(events).type = "PermissionRequest"
          THEN [permissions EXCEPT ![Head(events).responder].responder = "consumer"]
          ELSE permissions
    /\ UNCHANGED <<target_os, cache, app, hooks, files, next_id, terminals, mgr_borrow, issued,
                   event_rx_open, last, capIn, capOut, regIn, regOut>>

(* The consumer drops the receiving end of the event channel: the events   *)
(* still queued are dropped, and with them the responders they carry.      *)
DropReceiver ==
    /\ last.op = "none"
    /\ event_rx_open
    /\ event_rx_open' = FALSE
    /\ events' = <<>>
    /\ permissions' =
          [k \in DOMAIN permissions |->
              IF permissions[k].responder = "queued"
              THEN [permissions[k] EXCEPT !.responder = "gone", !.chan = "closed"]
              ELSE permissions[k]]
    /\ UNCHANGED <<target_os, cache, app, hooks, files, next_id, terminals, mgr_borrow, issued,
                   last, capIn, capOut, regIn, regOut>>

(* The response of the last call has gone back to the agent: the handlers  *)
(* above record one call at a time, from the moment it completes until     *)
(* its response is taken.                                                  *)
Return ==
    /\ last.op # "none"
    /\ last' = NoCall
    /\ UNCHANGED <<target_os, cache, app, hooks, files, events, next_id, terminals, mgr_borrow,
                   issued, event_rx_open, permissions, capIn, capOut, regIn, regOut>>

----------------------------------------------------------------------------
(* Spec: the mediator's capability calls that have a Before phase *)

NoDispatch == [result |-> Continue, results |-> <<>>, ran |-> <<>>]

(* ui/cache.rs: HashCache::new *)
HashCacheNew(capacity) == [map |-> <<>>, order |-> <<>>, capacity |-> capacity]

(* app.rs: App::new *)
AppNew ==
    [approval |-> None, session_id |-> None, is_busy |-> FALSE,
     pending_hook_feedback |-> <<>>,
     prompt_done |-> 0,     \* signals in the prompt_done channel
     in_flight |-> <<>>,    \* the spawned tasks awaiting conn.prompt
     prompts |-> <<>>]      \* history: the prompts handed to conn.prompt, in order

IdleCap == <<>>
IdleReg == [phase |-> "none", ctx |-> HookContext("TurnEnd", "After", None, None, None),
            outs |-> <<>>]

InitCommon ==
    /\ target_os \in {"windows", "linux"}
    /\ events = <<>>
    /\ event_rx_open = TRUE
    /\ permissions = <<>>
    /\ next_id = 0
    /\ terminals = <<>>
    /\ mgr_borrow = None
    /\ issued = <<>>
    /\ last = NoCall
    /\ capIn = IdleCap
    /\ capOut = None
    /\ regIn = IdleReg
    /\ regOut = NoDispatch
    /\ cache = HashCacheNew(0)
    /\ app = AppNew

Init ==
    /\ InitCommon
    /\ hooks \in Registries
    /\ files = [p \in NativePaths |->
                    IF p = ToNative(PathARs) THEN Some(ContentV1) ELSE None]

Next ==
    \/ \E p \in AgentPaths :
          \E outs \in OutsFor(hooks, "FsRead", ExecOutcomes) : ReadTextFile(p, outs, TRUE)
    \/ \E p \in AgentPaths, c \in Contents, io_ok \in BOOLEAN :
          \E outs \in OutsFor(hooks, "FsWrite", ExecOutcomes) : WriteTextFile(p, c, outs, io_ok)
    \/ \E c \in Commands, spawn_ok \in BOOLEAN :
          \E outs \in OutsFor(hooks, "Terminal", ExecOutcomes) :
             next_id < MaxCreates /\ CreateTerminal(c, outs, spawn_ok)
    \/ RecvEvent
    \/ DropReceiver
    \/ Return

Spec == Init /\ [][Next]_vars

----------------------------------------------------------------------------
(* Statements about the capability calls, read off the record of the call  *)
(* that has just completed and off the state it left behind.               *)

BeforeOps == {"read_text_file", "write_text_file", "create_terminal"}

TargetOf(op) ==
    CASE op = "read_text_file"  -> "FsRead"
      [] op = "write_text_file" -> "FsWrite"
      [] op = "create_terminal" -> "Terminal"
      [] OTHER                  -> "TurnEnd"

(* The step just taken is the completion of a call with a Before phase *)
CompletesBeforeOp == last.op = "none" /\ last'.op \in BeforeOps

(* The call failed before any effect: nothing read, written or spawned,    *)
(* no After hook run, no event emitted.                                    *)
Denied(c) ==
    /\ c.resp.kind = "err"
    /\ c.steps = <<>>
    /\ c.after.ran = <<>>
    /\ c.emitted = <<>>

(* The step left the filesystem, the terminal manager and the event        *)
(* channel as they were.                                                   *)
NoEffect ==
    /\ files' = files
    /\ terminals' = terminals
    /\ next_id' = next_id
    /\ issued' = issued
    /\ events' = events

(* C1: when run_before returns Blocked{reason}, read_text_file,            *)
(* write_text_file and create_terminal return a protocol error carrying    *)
(* that reason and perform no effect: no file is read or written, no       *)
(* process is spawned, no terminal is registered, no After hook runs.      *)
C1_BlockedDenies ==
    [][ (CompletesBeforeOp /\ last'.before.result.kind = "Blocked")
            => /\ Denied(last')
               /\ last'.resp.value = InternalErr(last'.before.result.text)
               /\ NoEffect ]_vars

C1_Witness ==
    /\ last.op = "write_text_file"
    /\ last.before.result.kind = "Blocked"
    /\ last.resp.kind = "err"
    /\ Len(last.before.ran) = 2

(* C2: when run_before returns FeedbackPrompt{text}, the call fails with   *)
(* an error surfacing that text and the effect is not performed.           *)
C2_FeedbackPromptDenies ==
    (last.op \in BeforeOps /\ last.before.result.kind = "FeedbackPrompt")
        => /\ Denied(last)
           /\ last.resp.value = InternalErr(last.before.result.text)

(* C3 as claimed: a call guarded by a matching Before hook whose glob      *)
(* failed to compile, or whose command cannot be spawned, is denied.       *)
C3_AmbiguityDenies ==
    \A i \in 1..Len(hooks) :
        ( /\ last.op \in BeforeOps
          /\ hooks[i].impl = "ShellHook"
          /\ hooks[i].timing = "Before"
          /\ hooks[i].target = TargetOf(last.op)
          /\ \/ hooks[i].glob.tag = "Invalid"
             \/ ~last.outs[i].exec.spawned )
        => Denied(last)

(* C3 as amended: a Before hook that is run and whose command cannot be    *)
(* spawned denies the call (Blocked, protocol error, no effect); a Before  *)
(* hook whose glob failed to compile returns Continue for every context    *)
(* that carries a path, so it does not deny the call.                      *)
C3_SpawnFailureDenies ==
    [][ CompletesBeforeOp =>
          \A k \in 1..Len(last'.before.ran) :
             LET e == last'.before.ran[k]
                 h == hooks[e.hook]
             IN  h.impl = "ShellHook" =>
                   /\ (h.glob.tag = "Invalid" /\ IsSome(last'.path))
                         => e.res = Continue
                   /\ ( /\ ~last'.outs[e.hook].exec.spawned
                        /\ (IsSome(last'.path) => MatchesPath(h, Unwrap(last'.path))) )
                         => /\ e.res.kind = "Blocked"
                            /\ last'.before.result = e.res
                            /\ Denied(last')
                            /\ NoEffect ]_vars

C3_Witness ==
    /\ last.op = "read_text_file"
    /\ last.before.ran # <<>>
    /\ ~last.outs[last.before.ran[1].hook].exec.spawned
    /\ last.before.result.kind = "Blocked"
    /\ Denied(last)

----------------------------------------------------------------------------
(* SpecReg: HookRegistry::run_before and run_after applied to registries,  *)
(* contexts and command outcomes drawn from bounded sets.                  *)

RegSources ==
    { ShellHookDef("h1", "beforeWrite", None, FALSE),
      ShellHookDef("h2", "beforeWrite", Some(GlobStarRs), TRUE),
      ShellHookDef("h4", "afterWrite", None, TRUE),
      ShellHookDef("h8", "afterWrite", Some(GlobStarRs), FALSE),
      ShellHookDef("h6", "beforeTerminal", Some(GlobBad), FALSE),
      DynHook("d1", "Before", "FsWrite"),
      DynHook("d2", "After", "FsWrite") }

MaxRegHooks == 3       \* longest registry handed to run_before / run_after

RegRegistries == { RegisterAll(srcs) : srcs \in SeqsUpTo(RegSources, MaxRegHooks) }

RegContexts(timing) ==
    { HookContext("FsWrite", timing, Some(ToNative(p)), Some(ContentV1), None) :
          p \in AgentPaths }
      \cup { HookContext("Terminal", timing, None, None, Some(c)) : c \in Commands }

InitReg ==
    /\ InitCommon
    /\ hooks \in RegRegistries
    /\ files = [p \in NativePaths |-> None]

DispatchBefore(ctx, outs) ==
    /\ regIn.phase = "none"
    /\ regIn' = [phase |-> "before", ctx |-> ctx, outs |-> outs]
    /\ regOut' = LET r == RunBefore(hooks, ctx, outs)
                 IN  [result |-> r.result, results |-> <<>>, ran |-> r.ran]
    /\ UNCHANGED <<target_os, cache, app, hooks, files, events, next_id, terminals, mgr_borrow,
                   issued, event_rx_open, last, permissions, capIn, capOut>>

DispatchAfter(ctx, outs) ==
    /\ regIn.phase = "none"
    /\ regIn' = [phase |-> "after", ctx |-> ctx, outs |-> outs]
    /\ regOut' = LET r == RunAfter(hooks, ctx, outs)
                 IN  [result |-> Continue, results |-> r.results, ran |-> r.ran]
    /\ UNCHANGED <<target_os, cache, app, hooks, files, events, next_id, terminals, mgr_borrow,
                   issued, event_rx_open, last, permissions, capIn, capOut>>

NextReg ==
    \/ \E ctx \in RegContexts("Before") :
          \E outs \in OutsFor(hooks, ctx.target, ExecOutcomes) : DispatchBefore(ctx, outs)
    \/ \E ctx \in RegContexts("After") :
          \E outs \in OutsFor(hooks, ctx.target, ExecOutcomes) : DispatchAfter(ctx, outs)

SpecReg == InitReg /\ [][NextReg]_vars

(* The positions of the hooks registered for (timing, target), ascending *)
RECURSIVE MatchingFrom(_, _, _, _)
MatchingFrom(reg, timing, target, i) ==
    IF i > Len(reg) THEN <<>>
    ELSE (IF reg[i].timing = timing /\ reg[i].target = target THEN <<i>> ELSE <<>>)
         \o MatchingFrom(reg, timing, target, i + 1)

RanHooks(ran) == [k \in 1..Len(ran) |-> ran[k].hook]

(* What hook i returns for the dispatched context *)
Returned(i) == HookRun(hooks[i], regIn.ctx, regIn.outs[i])

RanFaithfully ==
    \A k \in 1..Len(regOut.ran) : regOut.ran[k].res = Returned(regOut.ran[k].hook)

(* C4: run_before visits the hooks in registration order, runs exactly     *)
(* those registered for (Before, ctx.target) up to and including the first *)
(* that returns a non-Continue result, returns that result, and returns    *)
(* Continue when there is none.                                            *)
C4_RunBeforeShortCircuits ==
    regIn.phase = "before" =>
        LET m == MatchingFrom(hooks, "Before", regIn.ctx.target, 1)
            stops == { k \in 1..Len(m) : Returned(m[k]).kind # "Continue" }
        IN  /\ RanFaithfully
            /\ IF stops = {}
               THEN /\ RanHooks(regOut.ran) = m
                    /\ regOut.result = Continue
               ELSE LET first == CHOOSE k \in stops : \A j \in stops : k <= j IN
                    /\ RanHooks(regOut.ran) = SubSeq(m, 1, first)
                    /\ regOut.result = Returned(m[first])

C4_Witness ==
    /\ regIn.phase = "before"
    /\ Len(MatchingFrom(hooks, "Before", regIn.ctx.target, 1)) = 2
    /\ Len(regOut.ran) = 1
    /\ regOut.result.kind = "FeedbackPrompt"
    /\ \E i \in 1..Len(hooks) : hooks[i].timing = "After"
                                  \/ hooks[i].target # regIn.ctx.target

(* C5: run_after runs every hook registered for (After, ctx.target) once,  *)
(* in registration order, whatever the earlier ones returned, and returns  *)
(* exactly their non-Continue results in that order.                       *)
C5_RunAfterRunsAll ==
    regIn.phase = "after" =>
        LET m == MatchingFrom(hooks, "After", regIn.ctx.target, 1)
            NonContinue(e) == e.res.kind # "Continue"
            kept == SelectSeq(regOut.ran, NonContinue)
        IN  /\ RanFaithfully
            /\ RanHooks(regOut.ran) = m
            /\ regOut.results = [k \in 1..Len(kept) |-> kept[k].res]

C5_Witness ==
    /\ regIn.phase = "after"
    /\ Len(regOut.ran) = 2
    /\ regOut.ran[1].res.kind = "Blocked"
    /\ Len(regOut.results) = 2

----------------------------------------------------------------------------
(* SpecCap: cap_output applied to buffers drawn from a bounded set *)

MaxBufChars == 8       \* characters in a buffer handed to cap_output

Utf8Chars ==
    { <<"a">>, <<"L2","cb">>, <<"L3","cb","cb">>, <<"L4","cb","cb","cb">> }

CapInputs == { Flatten(cs) : cs \in SeqsUpTo(Utf8Chars, MaxBufChars) }

InitCap ==
    /\ target_os = "linux"
    /\ hooks = <<>>
    /\ files = [p \in NativePaths |-> None]
    /\ events = <<>>
    /\ event_rx_open = TRUE
    /\ permissions = <<>>
    /\ next_id = 0
    /\ terminals = <<>>
    /\ mgr_borrow = None
    /\ issued = <<>>
    /\ last = NoCall
    /\ regIn = IdleReg
    /\ regOut = NoDispatch
    /\ capIn \in CapInputs
    /\ capOut = None
    /\ cache = HashCacheNew(0)
    /\ app = AppNew

ApplyCapOutput ==
    /\ capOut = None
    /\ capOut' = Some(CapOutput(capIn, MaxAccumulatedOutput))
    /\ UNCHANGED <<target_os, cache, app, hooks, files, events, next_id, terminals, mgr_borrow,
                   issued, event_rx_open, last, permissions, capIn, regIn, regOut>>

NextCap == ApplyCapOutput

SpecCap == InitCap /\ [][NextCap]_vars

IsSuffix(t, s) == Len(t) <= Len(s) /\ SubSeq(s, Len(s) - Len(t) + 1, Len(s)) = t

(* C10: a buffer of at most cap bytes is returned unchanged; a longer one  *)
(* becomes the marker followed by a suffix of the buffer that starts on a  *)
(* character boundary: the result is well-formed text, starts with the     *)
(* marker, ends with the most recent bytes, and its length is at most cap  *)
(* and less than one character (4 bytes) below it.                         *)
C10_CapOutput ==
    IsSome(capOut) =>
        LET out == Unwrap(capOut) IN
        IF Len(capIn) <= MaxAccumulatedOutput
        THEN out = capIn
        ELSE /\ StartsWith(out, PREFIX)
             /\ IsSuffix(Drop(out, Len(PREFIX)), capIn)
             /\ IsCharBoundary(capIn, Len(capIn) - (Len(out) - Len(PREFIX)))
             /\ ValidUtf8(out)
             /\ Len(out) <= MaxAccumulatedOutput
             /\ Len(out) > MaxAccumulatedOutput - 4

C10_Witness ==
    /\ IsSome(capOut)
    /\ Len(capIn) > MaxAccumulatedOutput
    /\ ~IsCharBoundary(capIn, Len(capIn) - (MaxAccumulatedOutput - Len(PREFIX)))
    /\ Len(Unwrap(capOut)) < MaxAccumulatedOutput

----------------------------------------------------------------------------
(* client.rs and capabilities/terminal.rs: the terminal calls.  Each       *)
(* handler takes terminal_manager.borrow_mut(), which panics when a RefMut *)
(* is already out; wait_for_terminal_exit and kill_terminal_command keep   *)
(* theirs across the .await on the child process.                          *)

TerminalOps ==
    {"terminal_output", "wait_for_terminal_exit", "release_terminal",
     "kill_terminal_command"}

TerminalQueryHooksRunBefore(reg, id) ==
    LET ctx == HookContext("Terminal", "Before", None, None, None)
        outs == [i \in 1..Len(reg) |-> DefaultOracle]
    IN  [outs |-> outs, before |-> BeforePhase(ctx, RunBefore(reg, ctx, outs)),
         after |-> NoAfter]

(* The hook phases of terminal_output, wait_for_terminal_exit,             *)
(* release_terminal and kill_terminal_command: the handlers parse the id   *)
(* and call the manager; no HookContext is built and the registry is not   *)
(* consulted.                                                              *)
TerminalQueryHooks(reg, id) == [outs |-> <<>>, before |-> NoBefore, after |-> NoAfter]

TermCall(op, id, resp) ==
    LET ph == TerminalQueryHooks(hooks, id) IN
    Call(op, None, None, None, Some(id), ph.outs, ph.before, <<>>, ph.after, <<>>, resp)

UnchangedButManager ==
    UNCHANGED <<target_os, cache, app, hooks, files, events, event_rx_open, permissions, capIn, capOut,
                regIn, regOut>>

TerminalOutputResponseFlagsCut(output) ==
    [output |-> output, truncated |-> StartsWith(output, PREFIX)]

(* acp::TerminalOutputResponse::new(output, false) *)
TerminalOutputResponse(output) == [output |-> output, truncated |-> FALSE]

TerminalOutput(id) ==
    LET got == MgrGetOutput(Manager, id) IN
    /\ last.op = "none"
    /\ IF IsSome(mgr_borrow)
       THEN /\ last' = TermCall("terminal_output", id, Panic)
            /\ UNCHANGED terminals
       ELSE /\ terminals' = got.terminals
            /\ last' = TermCall("terminal_output", id,
                          IF got.result.kind = "ok"
                          THEN Ok(TerminalOutputResponse(got.result.value))
                          ELSE Err(InternalErr(got.result.value)))
    /\ UNCHANGED <<next_id, mgr_borrow, issued>>
    /\ UnchangedButManager

(* What a release did to the process it named: the entry was removed, and  *)
(* dropping it killed a child that was still running.                      *)
ReleaseSteps(rel) ==
    IF ~IsSome(rel.dropped) THEN <<>>
    ELSE IF Unwrap(rel.dropped).killed THEN <<"remove", "kill_on_drop">>
    ELSE <<"remove">>

ReleaseTerminal(id) ==
    LET rel == MgrRelease(Manager, id) IN
    /\ last.op = "none"
    /\ IF IsSome(mgr_borrow)
       THEN /\ last' = TermCall("release_terminal", id, Panic)
            /\ UNCHANGED terminals
       ELSE /\ terminals' = rel.terminals
            /\ last' = [TermCall("release_terminal", id,
                           IF rel.result.kind = "ok" THEN Ok(<<>>)
                           ELSE Err(InternalErr(rel.result.value)))
                        EXCEPT !.steps = ReleaseSteps(rel)]
    /\ UNCHANGED <<next_id, mgr_borrow, issued>>
    /\ UnchangedButManager

MaxZeroAbs(code) == IF code >= 0 THEN code ELSE -code

(* exit_code.max(0) as u32 *)
MaxZero(code) == IF code > 0 THEN code ELSE 0

ExitResponse(t) ==
    Ok([exit_code |-> MaxZero(ExitCodeOrSentinel(t.child.code))])

(* wait_for_terminal_exit up to its .await: an unknown id fails at once, a *)
(* child that has exited is reported at once, a running child leaves the   *)
(* call suspended with the RefMut still held.                              *)
WaitForTerminalExit(id) ==
    /\ last.op = "none"
    /\ IF IsSome(mgr_borrow)
       THEN /\ last' = TermCall("wait_for_terminal_exit", id, Panic)
            /\ UNCHANGED mgr_borrow
       ELSE IF ~Lookup(terminals, id)
       THEN /\ last' = TermCall("wait_for_terminal_exit", id,
                                Err(InternalErr(ErrMsg("Unknown terminal"))))
            /\ UNCHANGED mgr_borrow
       ELSE IF terminals[id].child.state = "exited"
       THEN /\ last' = TermCall("wait_for_terminal_exit", id, ExitResponse(terminals[id]))
            /\ UNCHANGED mgr_borrow
       ELSE /\ mgr_borrow' = Some([op |-> "wait_for_terminal_exit", id |-> id])
            /\ UNCHANGED last
    /\ UNCHANGED <<next_id, terminals, issued>>
    /\ UnchangedButManager

(* The child awaited by a suspended wait has exited: the call resumes,     *)
(* releases the RefMut and answers.                                        *)
WaitResume ==
    /\ last.op = "none"
    /\ IsSome(mgr_borrow)
    /\ Unwrap(mgr_borrow).op = "wait_for_terminal_exit"
    /\ terminals[Unwrap(mgr_borrow).id].child.state = "exited"
    /\ mgr_borrow' = None
    /\ last' = TermCall("wait_for_terminal_exit", Unwrap(mgr_borrow).id,
                        ExitResponse(terminals[Unwrap(mgr_borrow).id]))
    /\ UNCHANGED <<next_id, terminals, issued>>
    /\ UnchangedButManager

MgrKillRemoves(mgr, id) ==
    [t \in DOMAIN mgr.terminals \ {id} |-> mgr.terminals[t]]

(* TerminalManager::kill on a registered terminal whose child is running:  *)
(* get_mut reaches the entry in place and only its child is signalled.     *)
MgrKill(mgr, id) ==
    [mgr.terminals EXCEPT ![id].child = [state |-> "exited", code |-> KilledCode]]

(* kill_terminal_command up to the .await inside Child::kill.  kill_ok is  *)
(* whether the kill of an already exited child is reported as a success.   *)
KillTerminalCommand(id, kill_ok) ==
    /\ last.op = "none"
    /\ IF IsSome(mgr_borrow)
       THEN /\ last' = TermCall("kill_terminal_command", id, Panic)
            /\ UNCHANGED <<mgr_borrow, terminals>>
       ELSE IF ~Lookup(terminals, id)
       THEN /\ last' = TermCall("kill_terminal_command", id,
                                Err(InternalErr(ErrMsg("Unknown terminal"))))
            /\ UNCHANGED <<mgr_borrow, terminals>>
       ELSE IF terminals[id].child.state = "exited"
       THEN /\ last' = TermCall("kill_terminal_command", id,
                                IF kill_ok THEN Ok(<<>>)
                                ELSE Err(InternalErr(ErrMsg("Failed to kill terminal"))))
            /\ UNCHANGED <<mgr_borrow, terminals>>
       ELSE /\ terminals' = MgrKill(Manager, id)
            /\ mgr_borrow' = Some([op |-> "kill_terminal_command", id |-> id])
            /\ UNCHANGED last
    /\ UNCHANGED <<next_id, issued>>
    /\ UnchangedButManager

(* The killed child has been reaped: the call resumes and answers *)
KillResume ==
    /\ last.op = "none"
    /\ IsSome(mgr_borrow)
    /\ Unwrap(mgr_borrow).op = "kill_terminal_command"
    /\ mgr_borrow' = None
    /\ last' = TermCall("kill_terminal_command", Unwrap(mgr_borrow).id, Ok(<<>>))
    /\ UNCHANGED <<next_id, terminals, issued>>
    /\ UnchangedButManager

UnboundedSendInFront(queue, chunk) == <<chunk>> \o queue

(* UnboundedSender::send: the message goes to the tail of the queue; the   *)
(* queue has no capacity limit, so the sender never waits.                 *)
UnboundedSend(queue, chunk) == Append(queue, chunk)

(* read_stream_to_channel: one of the two reader tasks of a terminal reads *)
(* a chunk from the child's stdout or stderr and sends it on the channel.  *)
ReaderPush(id, stream, chunk) ==
    /\ last.op = "none"
    /\ Lookup(terminals, id)
    /\ IF stream = "stdout" THEN terminals[id].stdout_left > 0
                            ELSE terminals[id].stderr_left > 0
    /\ terminals' = [terminals EXCEPT
                       ![id].output_rx = UnboundedSend(@, chunk),
                       ![id].pushed = Append(@, chunk),
                       ![id].stdout_left = IF stream = "stdout" THEN @ - 1 ELSE @,
                       ![id].stderr_left = IF stream = "stderr" THEN @ - 1 ELSE @]
    /\ UNCHANGED <<next_id, mgr_borrow, issued, last>>
    /\ UnchangedButManager

(* The child process of a terminal ends by itself *)
ChildExit(id, code) ==
    /\ last.op = "none"
    /\ Lookup(terminals, id)
    /\ terminals[id].child.state = "running"
    /\ terminals' = [terminals EXCEPT ![id].child = [state |-> "exited", code |-> code]]
    /\ UNCHANGED <<next_id, mgr_borrow, issued, last>>
    /\ UnchangedButManager

----------------------------------------------------------------------------
(* SpecTerm: one terminal manager, the agent's terminal calls against it,  *)
(* the reader tasks and the child processes.                               *)

(* What a reader task pushes: each chunk fits under the cap by itself, the *)
(* two together exceed it.                                                 *)
StdoutChunks ==
    { <<"L3","cb","cb", "L3","cb","cb", "L3","cb","cb", "L3","cb","cb",
        "L3","cb","cb", "o">> }

StderrChunks ==
    { <<"L4","cb","cb","cb", "L4","cb","cb","cb", "L4","cb","cb","cb">> }

ChunksOf(stream) == IF stream = "stdout" THEN StdoutChunks ELSE StderrChunks

ExitCodes == {Some(0), Some(2)}

(* TerminalId::from_str accepts any string: the agent may name ids that    *)
(* were never issued.                                                      *)
RequestIds == { TerminalIdNew(n) : n \in 0..(MaxTerminals - 1) }

InitTerm ==
    /\ InitCommon
    /\ hooks = <<>>
    /\ files = [p \in NativePaths |-> None]

NextTerm ==
    \/ \E c \in Commands, spawn_ok \in BOOLEAN :
          \E outs \in OutsFor(hooks, "Terminal", ExecOutcomes) :
             next_id < MaxTerminals /\ CreateTerminal(c, outs, spawn_ok)
    \/ \E id \in RequestIds : TerminalOutput(id)
    \/ \E id \in RequestIds : ReleaseTerminal(id)
    \/ \E id \in RequestIds : WaitForTerminalExit(id)
    \/ WaitResume
    \/ \E id \in RequestIds, kill_ok \in BOOLEAN : KillTerminalCommand(id, kill_ok)
    \/ KillResume
    \/ \E id \in RequestIds, stream \in {"stdout", "stderr"} :
          \E chunk \in ChunksOf(stream) : ReaderPush(id, stream, chunk)
    \/ \E id \in RequestIds, code \in ExitCodes : ChildExit(id, code)
    \/ Return

SpecTerm == InitTerm /\ [][NextTerm]_vars

(* A call recorded while a RefMut is out was made during the suspension:   *)
(* the suspending calls start only when no call is recorded.               *)
DuringSuspension == IsSome(mgr_borrow) /\ last.op \in TerminalOps

(* C6: while a wait_for_terminal_exit or kill_terminal_command on a        *)
(* terminal A is suspended, a terminal call naming a different terminal B  *)
(* is served: it does not panic.                                           *)
C6_OtherTerminalServed ==
    ( /\ DuringSuspension
      /\ last.id # Some(Unwrap(mgr_borrow).id)
      /\ Lookup(terminals, Unwrap(last.id)) )
        => last.resp.kind # "panic"

IdNumber(id) == id[2]

IssuedInOrder ==
    /\ \A i \in 1..Len(issued) :
          /\ issued[i] = TerminalIdNew(IdNumber(issued[i]))
          /\ IdNumber(issued[i]) < next_id
    /\ \A i, j \in 1..Len(issued) : i < j => IdNumber(issued[i]) < IdNumber(issued[j])
    /\ \A id \in DOMAIN terminals : \E i \in 1..Len(issued) : issued[i] = id

(* C7: the counter never decreases, and after every step every id the      *)
(* manager has issued is "term-" and a number below the counter, the       *)
(* numbers strictly increase in the order of issue (so no id is issued     *)
(* twice, whatever was released or failed to spawn in between), and the    *)
(* registered terminals are among the issued ids.                          *)
C7_FreshIds ==
    [][ /\ next_id' >= next_id
        /\ IssuedInOrder'
        /\ (last.op = "none" /\ last'.op = "create_terminal" /\ last'.resp.kind = "ok")
              => /\ last'.resp.value = TerminalIdNew(next_id)
                 /\ \A i \in 1..Len(issued) : issued[i] # last'.resp.value
                 /\ Lookup(terminals', last'.resp.value)
        /\ (last.op = "none" /\ last'.op = "create_terminal" /\ last'.resp.kind # "ok")
              => terminals' = terminals ]_vars

(* A second terminal has been created after the first was released *)
C7_Witness ==
    /\ issued = <<TerminalIdNew(0), TerminalIdNew(1)>>
    /\ ~Lookup(terminals, TerminalIdNew(0))
    /\ Lookup(terminals, TerminalIdNew(1))

(* C8: a terminal operation that reaches the manager with an id that is    *)
(* not registered (never created, or released) answers with an error and   *)
(* changes nothing in the manager.                                         *)
C8_UnknownIdFails ==
    [][ ( /\ last.op = "none"
          /\ last'.op \in TerminalOps
          /\ ~IsSome(mgr_borrow)
          /\ ~Lookup(terminals, Unwrap(last'.id)) )
        => /\ last'.resp.kind = "err"
           /\ last'.resp.value = InternalErr(ErrMsg("Unknown terminal"))
           /\ UNCHANGED <<terminals, next_id, issued, mgr_borrow>> ]_vars

(* A released id was named again and the call failed *)
C8_Witness ==
    /\ last.op \in TerminalOps
    /\ last.resp.kind = "err"
    /\ \E i \in 1..Len(issued) : last.id = Some(issued[i])
    /\ ~Lookup(terminals, Unwrap(last.id))

----------------------------------------------------------------------------
(* client.rs: request_permission.  Each call creates a oneshot channel,    *)
(* sends its sender to the consumer inside a PermissionRequest event and   *)
(* awaits the receiver.                                                    *)

PermissionRequest(request, responder) ==
    [type |-> "PermissionRequest", request |-> request, responder |-> responder]

PermissionArgs == {"edit a.rs"}
(* RequestPermissionOutcome: Selected { option_id } or Cancelled *)
PermissionOutcomes == {<<"selected", "allow">>, <<"cancelled">>}

(* oneshot::channel() of a call: where the sender is ("queued" inside the  *)
(* event, held by the "consumer", or "gone"), what the channel holds, and  *)
(* whether the call still awaits the receiver.                             *)
Oneshot(request, responder, chan) ==
    [request |-> request, responder |-> responder, chan |-> chan, value |-> None,
     call |-> "waiting", resp |-> Ok(<<>>)]

RxAwaitAllowsOnClose(p) ==
    Ok(IF p.chan = "sent" THEN Unwrap(p.value) ELSE <<"selected", "allow">>)

(* rx.await.map_err(|_| internal_err("Permission request channel closed")) *)
RxAwait(p) ==
    IF p.chan = "sent" THEN Ok(Unwrap(p.value))
    ELSE Err(InternalErr(ErrMsg("Permission request channel closed")))

(* request_permission up to rx.await.  The event of a send that fails is   *)
(* dropped at once, and the responder with it.                             *)
RequestPermission(request) ==
    LET k == Len(permissions) + 1 IN
    /\ last.op = "none"
    /\ events' = Emit(events, event_rx_open, <<PermissionRequest(request, k)>>)
    /\ permissions' = Append(permissions,
                             IF event_rx_open THEN Oneshot(request, "queued", "open")
                             ELSE Oneshot(request, "gone", "closed"))
    /\ UNCHANGED <<target_os, cache, app, hooks, files, next_id, terminals, mgr_borrow, issued,
                   event_rx_open, last, capIn, capOut, regIn, regOut>>

(* The consumer answers through the responder it holds *)
ConsumerRespond(k, outcome) ==
    /\ last.op = "none"
    /\ k \in DOMAIN permissions
    /\ permissions[k].responder = "consumer"
    /\ permissions' = [permissions EXCEPT ![k].responder = "gone",
                                          ![k].chan = "sent",
                                          ![k].value = Some(outcome)]
    /\ UNCHANGED <<target_os, cache, app, hooks, files, events, next_id, terminals, mgr_borrow,
                   issued, event_rx_open, last, capIn, capOut, regIn, regOut>>

(* The consumer drops the responder without answering *)
ConsumerDropResponder(k) ==
    /\ last.op = "none"
    /\ k \in DOMAIN permissions
    /\ permissions[k].responder = "consumer"
    /\ permissions' = [permissions EXCEPT ![k].responder = "gone", ![k].chan = "closed"]
    /\ UNCHANGED <<target_os, cache, app, hooks, files, events, next_id, terminals, mgr_borrow,
                   issued, event_rx_open, last, capIn, capOut, regIn, regOut>>

PermissionCall(resp) ==
    Call("request_permission", None, None, None, None, <<>>, NoBefore, <<>>, NoAfter,
         <<>>, resp)

(* rx.await completes: the channel was answered or its sender is gone *)
PermissionResume(k) ==
    /\ last.op = "none"
    /\ k \in DOMAIN permissions
    /\ permissions[k].call = "waiting"
    /\ permissions[k].chan # "open"
    /\ permissions' = [permissions EXCEPT ![k].call = "returned",
                                          ![k].resp = RxAwait(permissions[k])]
    /\ last' = PermissionCall(RxAwait(permissions[k]))
    /\ UNCHANGED <<target_os, cache, app, hooks, files, events, next_id, terminals, mgr_borrow,
                   issued, event_rx_open, capIn, capOut, regIn, regOut>>

PermissionIds == 1..MaxPermissions

InitPerm ==
    /\ InitCommon
    /\ hooks = <<>>
    /\ files = [p \in NativePaths |-> None]

NextPerm ==
    \/ \E request \in PermissionArgs :
          Len(permissions) < MaxPermissions /\ RequestPermission(request)
    \/ RecvEvent
    \/ DropReceiver
    \/ \E k \in PermissionIds, outcome \in PermissionOutcomes : ConsumerRespond(k, outcome)
    \/ \E k \in PermissionIds : ConsumerDropResponder(k)
    \/ \E k \in PermissionIds : PermissionResume(k)
    \/ Return

SpecPerm == InitPerm /\ [][NextPerm]_vars

(* The runtime polls a task whose oneshot receiver has been woken, and the *)
(* connection takes a response that is ready.                              *)
SpecPermLive ==
    /\ SpecPerm
    /\ WF_vars(Return)
    /\ \A k \in PermissionIds : WF_vars(PermissionResume(k))

(* The events in the channel that carry the responder of call k *)
QueuedFor(chan, k) ==
    { i \in 1..Len(chan) : chan[i].type = "PermissionRequest" /\ chan[i].responder = k }

ChannelClosed == Err(InternalErr(ErrMsg("Permission request channel closed")))

(* C11: a request_permission call puts exactly one PermissionRequest event *)
(* carrying its responder on the event channel (none when the channel is   *)
(* closed, and then its reply channel is closed at once); it returns only  *)
(* once its reply channel is answered or closed, with the consumer's       *)
(* answer in the first case and the protocol error in the second; and a    *)
(* call whose reply channel is answered or closed does return.             *)
C11_PermissionAnswered ==
    /\ [][ /\ \A k \in DOMAIN permissions' :
                LET p == permissions'[k] IN
                /\ p.call = "returned" =>
                      /\ p.chan # "open"
                      /\ p.chan = "sent" => p.resp = Ok(Unwrap(p.value))
                      /\ p.chan = "closed" => p.resp = ChannelClosed
                /\ Cardinality(QueuedFor(events', k)) = IF p.responder = "queued" THEN 1 ELSE 0
                /\ p.chan = "open" <=> p.responder \in {"queued", "consumer"}
           /\ Len(permissions') > Len(permissions) =>
                LET k == Len(permissions') IN
                /\ permissions'[k].call = "waiting"
                /\ IF event_rx_open
                   THEN /\ events' = Append(events,
                                            PermissionRequest(permissions'[k].request, k))
                        /\ permissions'[k].chan = "open"
                   ELSE /\ events' = events
                        /\ permissions'[k].chan = "closed"
           /\ (last.op = "none" /\ last'.op = "request_permission") =>
                \E k \in DOMAIN permissions :
                   /\ permissions[k].call = "waiting"
                   /\ permissions'[k].call = "returned"
                   /\ last'.resp = permissions'[k].resp ]_vars
    /\ \A k \in PermissionIds :
          (k \in DOMAIN permissions /\ permissions[k].chan # "open")
             ~> (k \in DOMAIN permissions /\ permissions[k].call = "returned")

(* One call was answered by the consumer, another was made after the       *)
(* consumer had closed the event channel; both have returned.              *)
C11_Witness ==
    /\ Len(permissions) = 2
    /\ ~event_rx_open
    /\ permissions[1].resp = Ok(<<"selected", "allow">>)
    /\ permissions[1].call = "returned"
    /\ permissions[2].call = "returned"
    /\ permissions[2].resp = ChannelClosed
    /\ permissions[2].responder = "gone"

----------------------------------------------------------------------------
(* SpecHook: ShellHook::run applied to one hook built by from_def, for     *)
(* definitions, contexts and command outcomes drawn from bounded sets.     *)

GlobARs == <<"a",".","r","s">>

HookEvents ==
    {"beforeWrite", "afterWrite", "beforeTerminal", "afterTerminal", "turnEnd", "onSave"}

HookDefs ==
    { ShellHookDef("h", e, pat, fb) :
         e \in HookEvents,
         pat \in {None, Some(GlobStarRs), Some(GlobARs), Some(GlobBad)},
         fb \in BOOLEAN }

(* Outcomes of Command::output(): code -1 stands for a child ended by a    *)
(* signal, whose ExitStatus is no success and has no code.                 *)
RunOutcomes ==
    { ExecFailed,
      ExecOutcome(TRUE, 0, <<>>, <<>>),
      ExecOutcome(TRUE, 0, <<"\n">>, <<" ">>),
      ExecOutcome(TRUE, 0, <<"o","k">>, <<>>),
      ExecOutcome(TRUE, 0, <<>>, <<"e">>),
      ExecOutcome(TRUE, 1, <<>>, <<>>),
      ExecOutcome(TRUE, 1, <<"o">>, <<"e">>),
      ExecOutcome(TRUE, -1, <<>>, <<"e">>) }

RunContexts(h) ==
    { HookContext(h.target, h.timing, path, None, None) :
         path \in {None} \cup { Some(np) : np \in NativePaths } }

InitHook ==
    /\ InitCommon
    /\ hooks \in { LoadHooksConfig(<<def>>) : def \in HookDefs }
    /\ files = [p \in NativePaths |-> None]

(* hook.run(&ctx).await on the configured hook; executed records whether   *)
(* the hook's command was handed to the shell.                             *)
RunShellHook(ctx, o) ==
    /\ regIn.phase = "none"
    /\ hooks # <<>>
    /\ regIn' = [phase |-> "run", ctx |-> ctx, outs |-> <<Oracle(o, Continue)>>]
    /\ regOut' = [result |-> ShellHookRun(hooks[1], ctx, o),
                  executed |-> PassesFilter(hooks[1], ctx)]
    /\ UNCHANGED <<target_os, cache, app, hooks, files, events, next_id, terminals, mgr_borrow,
                   issued, event_rx_open, permissions, last, capIn, capOut>>

NextHook ==
    \E ctx \in (IF hooks = <<>> THEN {} ELSE RunContexts(hooks[1])), o \in RunOutcomes :
       RunShellHook(ctx, o)

SpecHook == InitHook /\ [][NextHook]_vars

(* The hook run, its command outcome and its result *)
RunDone == regIn.phase = "run"
RunHook == hooks[1]
RunExec == regIn.outs[1].exec
Captured == RunExec.stdout \o RunExec.stderr
Blank(text) == \A i \in 1..Len(text) : IsWhitespace(text[i])
FailedMsg == Msg("failed", RunHook.def.name, RunExec.code, Captured)

(* C12: once the filter has passed and the command has run, the result is  *)
(* determined by exit status, feedback flag, timing and output: non-zero   *)
(* exit gives FeedbackPrompt with feedback (either timing), else Blocked   *)
(* for a Before hook and Continue for an After hook; zero exit with        *)
(* feedback and non-blank combined output gives FeedbackPrompt; every      *)
(* other case gives Continue; ModifiedArgs is never produced.              *)
C12_RunResultTable ==
    (RunDone /\ regOut.executed /\ RunExec.spawned) =>
        /\ regOut.result.kind # "ModifiedArgs"
        /\ regOut.result =
             IF RunExec.code # 0
             THEN IF RunHook.def.feedback THEN FeedbackPrompt(FailedMsg)
                  ELSE IF RunHook.timing = "Before" THEN Blocked(FailedMsg)
                  ELSE Continue
             ELSE IF RunHook.def.feedback /\ ~Blank(Captured)
                  THEN FeedbackPrompt(Msg("output", RunHook.def.name, 0, Captured))
                  ELSE Continue

(* A feedback After hook whose command succeeded printing only blanks *)
C12_Witness ==
    /\ RunDone /\ regOut.executed /\ RunExec.spawned
    /\ RunHook.def.feedback
    /\ RunHook.timing = "After"
    /\ RunExec.code = 0
    /\ Captured # <<>>
    /\ regOut.result = Continue

(* C13: when the command cannot be spawned, a Before hook returns Blocked  *)
(* whatever its feedback flag, and an After hook returns Continue.         *)
C13_SpawnFailure ==
    (RunDone /\ regOut.executed /\ ~RunExec.spawned) =>
        IF RunHook.timing = "Before"
        THEN regOut.result.kind = "Blocked"
        ELSE regOut.result = Continue

C13_Witness ==
    /\ RunDone /\ regOut.executed /\ ~RunExec.spawned
    /\ RunHook.timing = "Before"
    /\ RunHook.def.feedback
    /\ regOut.result.kind = "Blocked"

FailingAfter ==
    /\ RunDone /\ regOut.executed /\ RunExec.spawned
    /\ RunExec.code # 0
    /\ RunHook.timing = "After"

(* C14 as claimed: a failing After hook yields Continue without feedback,  *)
(* FeedbackPrompt with feedback and non-empty captured output, Continue    *)
(* with feedback and empty captured output.                                *)
C14_FailingAfterAsClaimed ==
    FailingAfter =>
        /\ regOut.result.kind # "Blocked"
        /\ ~RunHook.def.feedback => regOut.result = Continue
        /\ (RunHook.def.feedback /\ Captured # <<>>) => regOut.result.kind = "FeedbackPrompt"
        /\ (RunHook.def.feedback /\ Captured = <<>>) => regOut.result = Continue

(* C14 as amended: a failing After hook never yields Blocked; it yields    *)
(* Continue without feedback, and with feedback it yields FeedbackPrompt   *)
(* carrying the failure message (hook name, exit code, captured output)    *)
(* whether or not anything was captured.                                   *)
C14_FailingAfter ==
    FailingAfter =>
        /\ regOut.result.kind # "Blocked"
        /\ ~RunHook.def.feedback => regOut.result = Continue
        /\ RunHook.def.feedback => regOut.result = FeedbackPrompt(FailedMsg)

C14_Witness ==
    /\ FailingAfter
    /\ RunHook.def.feedback
    /\ Captured = <<>>
    /\ regOut.result.kind = "FeedbackPrompt"

(* C16: with a path in the context the command is executed iff the hook    *)
(* has no glob or its compiled glob matches the whole path or the file     *)
(* name alone, never for a glob that failed to compile; without a path it  *)
(* is always executed.  A hook whose command is not executed returns       *)
(* Continue.                                                               *)
C16_GlobFilter ==
    RunDone =>
        LET pattern == RunHook.def.pattern
            path == regIn.ctx.path
        IN  /\ regOut.executed <=>
                 \/ ~IsSome(path)
                 \/ ~IsSome(pattern)
                 \/ /\ PatternNewOk(Unwrap(pattern))
                    /\ \/ PatternMatches(Unwrap(pattern), Unwrap(path))
                       \/ /\ IsSome(FileName(Unwrap(path)))
                          /\ PatternMatches(Unwrap(pattern), Unwrap(FileName(Unwrap(path))))
            /\ ~regOut.executed => regOut.result = Continue
            /\ (IsSome(path) /\ IsSome(pattern) /\ ~PatternNewOk(Unwrap(pattern)))
                  => ~regOut.executed

(* A glob that matches the file name but not the whole path lets the       *)
(* command run.                                                            *)
C16_Witness ==
    /\ RunDone
    /\ regOut.executed
    /\ RunHook.def.pattern = Some(GlobARs)
    /\ IsSome(regIn.ctx.path)
    /\ ~PatternMatches(GlobARs, Unwrap(regIn.ctx.path))
    /\ regOut.result.kind = "Blocked"

----------------------------------------------------------------------------
(* write_text_file past its Before phase (checked under Spec) *)

CompletesWrite == last.op = "none" /\ last'.op = "write_text_file"

(* The call got past the `?` on the file write: the write succeeded *)
WriteSucceeded(c) == Len(c.steps) >= 2 /\ c.steps[1] = "write" /\ c.steps[2] = "run_after"

(* C15: once the file write of a write_text_file call has succeeded, the   *)
(* call returns success whatever the After hooks returned and whether or   *)
(* not the feedback events could be delivered; the file holds what was     *)
(* written.                                                                *)
C15_AfterNeverFailsWrite ==
    [][ (CompletesWrite /\ WriteSucceeded(last')) =>
           /\ last'.resp = Ok(<<>>)
           /\ IsSome(files'[Unwrap(last'.path)])
           /\ last'.after.ctx.content = files'[Unwrap(last'.path)] ]_vars

(* A write whose After hooks returned something other than Continue, made  *)
(* after the consumer had closed the event channel, succeeded.             *)
C15_Witness ==
    /\ last.op = "write_text_file"
    /\ WriteSucceeded(last)
    /\ \E k \in 1..Len(last.after.results) : last.after.results[k].kind = "FeedbackPrompt"
    /\ \E k \in 1..Len(last.after.ran) : ~last.outs[last.after.ran[k].hook].exec.spawned
    /\ ~event_rx_open
    /\ last.resp.kind = "ok"

(* The HookFeedback events owed for a list of After results *)
RECURSIVE PromptsOf(_)
PromptsOf(results) ==
    IF results = <<>> THEN <<>>
    ELSE (IF Head(results).kind = "FeedbackPrompt"
          THEN <<[type |-> "HookFeedback", text |-> Head(results).text]>> ELSE <<>>)
         \o PromptsOf(Tail(results))

(* C17: a write_text_file call emits one HookFeedback event per            *)
(* FeedbackPrompt result of run_after, in registration order, after the    *)
(* write and the After dispatch, appending them to the event channel       *)
(* without waiting (dropping them when the channel is closed); other       *)
(* After results give no event; a blocked or failed write emits none.      *)
C17_FeedbackEvents ==
    [][ CompletesWrite =>
           LET c == last' IN
           IF WriteSucceeded(c)
           THEN /\ c.emitted = PromptsOf(c.after.results)
                /\ c.steps = <<"write", "run_after">> \o [i \in 1..Len(c.emitted) |-> "emit"]
                /\ events' = IF event_rx_open THEN events \o c.emitted ELSE events
                /\ \A i, j \in 1..Len(c.after.ran) :
                      i < j => c.after.ran[i].hook < c.after.ran[j].hook
                /\ c.after.results =
                      LET NonContinue(e) == e.res.kind # "Continue"
                          kept == SelectSeq(c.after.ran, NonContinue)
                      IN  [k \in 1..Len(kept) |-> kept[k].res]
           ELSE /\ c.emitted = <<>>
                /\ c.after.ran = <<>>
                /\ events' = events
                /\ c.resp.kind = "err" ]_vars

(* Two After hooks returned non-Continue results, only one of them a       *)
(* FeedbackPrompt, and exactly that one was sent.                          *)
C17_Witness ==
    /\ last.op = "write_text_file"
    /\ WriteSucceeded(last)
    /\ Len(last.after.results) = 2
    /\ last.after.results[1].kind = "Blocked"
    /\ last.after.results[2].kind = "FeedbackPrompt"
    /\ events = <<HookFeedback(last.after.results[2].text)>>

(* What run_before asked to substitute, if anything *)
Substituted(r) == IF r.kind = "ModifiedArgs" /\ IsSome(r.content) THEN r.content ELSE None

(* C18: in write_text_file a ModifiedArgs result carrying content c makes  *)
(* the call write c and carry c in the After context; in every other       *)
(* non-failing case the original content is written and carried. The       *)
(* Before and After contexts are built per phase around the same native    *)
(* path and reach the record as they were built. In read_text_file and     *)
(* create_terminal a ModifiedArgs result changes nothing: the call goes on *)
(* with its original arguments.                                            *)
C18_ModifiedArgs ==
    [][ (last.op = "none" /\ last'.op \in BeforeOps) =>
           LET c == last'
               r == c.before.result
           IN  CASE c.op = "write_text_file" ->
                      /\ c.before.ctx = HookContext("FsWrite", "Before", c.path, c.content, None)
                      /\ WriteSucceeded(c) =>
                            LET used == IF IsSome(Substituted(r)) THEN Substituted(r)
                                        ELSE c.content
                            IN  /\ files'[Unwrap(c.path)] = used
                                /\ c.after.ctx = HookContext("FsWrite", "After", c.path, used, None)
                                /\ \A q \in DOMAIN files :
                                      q # Unwrap(c.path) => files'[q] = files[q]
                 [] c.op = "read_text_file" ->
                      /\ c.before.ctx = HookContext("FsRead", "Before", c.path, None, None)
                      /\ r.kind = "ModifiedArgs" =>
                            /\ c.steps = <<"read">>
                            /\ files' = files
                            /\ IF IsSome(files[Unwrap(c.path)])
                               THEN c.resp = Ok(Unwrap(files[Unwrap(c.path)]))
                               ELSE c.resp.kind = "err"
                 [] c.op = "create_terminal" ->
                      /\ c.before.ctx = HookContext("Terminal", "Before", None, None, c.command)
                      /\ r.kind = "ModifiedArgs" =>
                            /\ c.steps # <<>> /\ c.steps[1] = "spawn"
                            /\ \E spawn_ok \in BOOLEAN :
                                  LET made == MgrCreateTerminal(Manager, Unwrap(c.command), spawn_ok)
                                  IN  /\ terminals' = made.terminals
                                      /\ next_id' = made.next_id
                                      /\ c.resp.kind = made.result.kind ]_vars

(* A Before hook replaced the content of a write: the file and the After   *)
(* context hold the replacement, not what the agent sent.                  *)
C18_Witness ==
    /\ last.op = "write_text_file"
    /\ WriteSucceeded(last)
    /\ IsSome(Substituted(last.before.result))
    /\ last.content # Substituted(last.before.result)
    /\ files[Unwrap(last.path)] = Substituted(last.before.result)
    /\ last.after.ctx.content = Substituted(last.before.result)
    /\ last.after.ran # <<>>

(* A read and a terminal creation went ahead although run_before returned  *)
(* ModifiedArgs.                                                           *)
C18_WitnessOther ==
    /\ last.op \in {"read_text_file", "create_terminal"}
    /\ last.before.result.kind = "ModifiedArgs"
    /\ last.resp.kind = "ok"

----------------------------------------------------------------------------
(* kill and release as frame statements (checked under SpecTerm) *)

(* The step is one of kill_terminal_command on id: its start, which        *)
(* signals the child and suspends, or its completion.                      *)
KillStep(id) ==
    \/ /\ mgr_borrow = None
       /\ mgr_borrow' = Some([op |-> "kill_terminal_command", id |-> id])
    \/ /\ last.op = "none"
       /\ last'.op = "kill_terminal_command"
       /\ last'.id = Some(id)

(* The child of terminal t was ended by a kill *)
Killed(t) ==
    /\ Lookup(terminals, t)
    /\ terminals[t].child = [state |-> "exited", code |-> KilledCode]

(* C19: kill(id) ends the named terminal's process and removes nothing:    *)
(* the id map keeps the same ids, the named entry changes in its child     *)
(* only, every other entry (process, queue, buffer) is as it was, and on a *)
(* killed terminal get_output and release still succeed and wait_for_exit  *)
(* finds an exited child.                                                  *)
C19_KillKeepsBookkeeping ==
    /\ [][ \A id \in RequestIds : KillStep(id) =>
              /\ DOMAIN terminals' = DOMAIN terminals
              /\ next_id' = next_id
              /\ issued' = issued
              /\ \A t \in DOMAIN terminals : t # id => terminals'[t] = terminals[t]
              /\ Lookup(terminals, id) =>
                    /\ terminals'[id] = [terminals[id] EXCEPT !.child = terminals'[id].child]
                    /\ (\/ mgr_borrow' # mgr_borrow /\ IsSome(mgr_borrow')
                        \/ last' # last /\ last'.resp.kind = "ok")
                          => terminals'[id].child.state = "exited" ]_vars
    /\ [](\A id \in RequestIds : Killed(id) =>
              /\ MgrGetOutput(Manager, id).result.kind = "ok"
              /\ MgrRelease(Manager, id).result.kind = "ok"
              /\ ExitResponse(terminals[id]) = Ok([exit_code |-> MaxZero(ExitCodeOrSentinel(KilledCode))]))

(* A kill of one terminal has returned while a second terminal is still    *)
(* running with output waiting in its queue.                               *)
C19_Witness ==
    /\ last.op = "kill_terminal_command"
    /\ last.resp.kind = "ok"
    /\ Killed(Unwrap(last.id))
    /\ terminals[Unwrap(last.id)].output_rx # <<>>
    /\ \E t \in DOMAIN terminals :
          /\ t # Unwrap(last.id)
          /\ terminals[t].child.state = "running"
          /\ terminals[t].output_rx # <<>>

(* The step completes a release_terminal call that reached the manager *)
ReleaseStep(id) ==
    /\ last.op = "none"
    /\ last'.op = "release_terminal"
    /\ last'.id = Some(id)
    /\ mgr_borrow = None

(* C20: release(id) removes exactly the named terminal from the id map and *)
(* drops its state, which kills its process if it is still running; every  *)
(* other terminal's entry and the id counter are unchanged; a release of   *)
(* an id that is not (or no longer) in the map fails and changes nothing.  *)
C20_ReleaseRemovesExactlyOne ==
    [][ \A id \in RequestIds : ReleaseStep(id) =>
           /\ next_id' = next_id
           /\ issued' = issued
           /\ \A t \in DOMAIN terminals : t # id =>
                 Lookup(terminals', t) /\ terminals'[t] = terminals[t]
           /\ ~Lookup(terminals', id)
           /\ IF Lookup(terminals, id)
              THEN /\ last'.resp = Ok(<<>>)
                   /\ DOMAIN terminals' = DOMAIN terminals \ {id}
                   /\ last'.steps = IF terminals[id].child.state = "running"
                                    THEN <<"remove", "kill_on_drop">> ELSE <<"remove">>
                   /\ MgrRelease(Manager', id).result.kind = "err"
              ELSE /\ last'.resp.kind = "err"
                   /\ last'.steps = <<>>
                   /\ terminals' = terminals ]_vars

(* A terminal with a running child and queued output was released while a  *)
(* second terminal stayed registered.                                      *)
C20_Witness ==
    /\ last.op = "release_terminal"
    /\ last.resp.kind = "ok"
    /\ last.steps = <<"remove", "kill_on_drop">>
    /\ ~Lookup(terminals, Unwrap(last.id))
    /\ \E t \in DOMAIN terminals : terminals[t].output_rx # <<>>

(* The same id was released a second time and the call failed *)
C20_WitnessSecond ==
    /\ last.op = "release_terminal"
    /\ last.resp = Err(InternalErr(ErrMsg("Unknown terminal")))
    /\ \E i \in 1..Len(issued) : last.id = Some(issued[i])

----------------------------------------------------------------------------
(* SpecTermHooks: the terminal manager of SpecTerm behind a registry that  *)
(* holds a Before and an After hook for the Terminal target.               *)

TermHookSources ==
    << ShellHookDef("t1", "beforeTerminal", None, FALSE),
       DynHook("t2", "After", "Terminal") >>

InitTermHooks ==
    /\ InitCommon
    /\ hooks = RegisterAll(TermHookSources)
    /\ files = [p \in NativePaths |-> None]

SpecTermHooks == InitTermHooks /\ [][NextTerm]_vars

(* C21: terminal_output, wait_for_terminal_exit, release_terminal and      *)
(* kill_terminal_command run no hook whatever is registered: the completed *)
(* call has awaited no hook of either phase, emitted nothing, and answers  *)
(* with what the TerminalManager returned.                                 *)
C21_TerminalQueriesSkipHooks ==
    [][ (last.op = "none" /\ last'.op \in TerminalOps) =>
           /\ last'.before.ran = <<>>
           /\ last'.after.ran = <<>>
           /\ last'.after.results = <<>>
           /\ last'.outs = <<>>
           /\ last'.emitted = <<>>
           /\ events' = events
           /\ hooks' = hooks
           /\ ( /\ last'.op \in {"terminal_output", "release_terminal"}
                /\ mgr_borrow = None
                /\ Lookup(terminals, Unwrap(last'.id)) ) => last'.resp.kind = "ok" ]_vars

(* With a Before and an After Terminal hook registered, a terminal created *)
(* through the Before hook was then queried and the query was served.      *)
C21_Witness ==
    /\ last.op \in TerminalOps
    /\ last.resp.kind = "ok"
    /\ \E i \in 1..Len(hooks) : hooks[i].timing = "Before" /\ hooks[i].target = "Terminal"
    /\ \E i \in 1..Len(hooks) : hooks[i].timing = "After" /\ hooks[i].target = "Terminal"
    /\ last.before.ran = <<>>

----------------------------------------------------------------------------
(* serde_json::Value, as far as the notification payloads and the path     *)
(* translation need it.  A value is a record of one shape whatever its     *)
(* kind t: a boolean in b, a number in n, the characters of a string in s, *)
(* the elements of an array in items, the entries of an object as keys and *)
(* items side by side.                                                     *)

JValue(t, b, n, str, keys, items) ==
    [t |-> t, b |-> b, n |-> n, s |-> str, keys |-> keys, items |-> items]

JNull == JValue("null", FALSE, 0, <<>>, <<>>, <<>>)
JBool(b) == JValue("bool", b, 0, <<>>, <<>>, <<>>)
JNum(n) == JValue("num", FALSE, n, <<>>, <<>>, <<>>)
JStr(str) == JValue("str", FALSE, 0, str, <<>>, <<>>)
JArr(items) == JValue("arr", FALSE, 0, <<>>, <<>>, items)
JObj(entries) ==
    JValue("obj", FALSE, 0, <<>>, [i \in 1..Len(entries) |-> entries[i][1]],
           [i \in 1..Len(entries) |-> entries[i][2]])

HasKey(obj, key) == \E i \in 1..Len(obj.keys) : obj.keys[i] = key
Get(obj, key) == obj.items[CHOOSE i \in 1..Len(obj.keys) : obj.keys[i] = key]

----------------------------------------------------------------------------
(* client.rs: session_notification and ext_notification *)

MaxNotifyQueue == 2

SessionNotification(session_id, variant, payload) ==
    [session_id |-> session_id, variant |-> variant, payload |-> payload]

SessionEventAllAsMessage(args) ==
    Some([type |-> "AgentMessage", session_id |-> args.session_id,
          chunk |-> args.payload])

(* the match on args.update: the event built for a handled variant, None   *)
(* for the `_` arm                                                         *)
SessionEvent(args) ==
    CASE args.variant = "AgentMessageChunk" ->
            Some([type |-> "AgentMessage", session_id |-> args.session_id,
                  chunk |-> args.payload])
      [] args.variant = "AgentThoughtChunk" ->
            Some([type |-> "AgentThought", session_id |-> args.session_id,
                  chunk |-> args.payload])
      [] args.variant = "ToolCall" ->
            Some([type |-> "ToolCallStarted", session_id |-> args.session_id,
                  tool_call |-> args.payload])
      [] args.variant = "ToolCallUpdate" ->
            Some([type |-> "ToolCallUpdated", session_id |-> args.session_id,
                  update |-> args.payload])
      [] args.variant = "Plan" ->
            Some([type |-> "PlanUpdated", session_id |-> args.session_id,
                  plan |-> args.payload])
      [] args.variant = "AvailableCommandsUpdate" ->
            Some([type |-> "CommandsUpdated", session_id |-> args.session_id,
                  commands |-> args.payload])
      [] args.variant = "CurrentModeUpdate" ->
            Some([type |-> "ModeChanged", session_id |-> args.session_id,
                  mode |-> args.payload])
      [] args.variant = "ConfigOptionUpdate" ->
            Some([type |-> "ConfigOptionsUpdated", session_id |-> args.session_id,
                  config_options |-> args.payload])
      [] OTHER -> None

(* Deserialize for KiroExtCommand: `name` is required, the rest defaults *)
ParseKiroExtCommand(v) ==
    IF v.t = "obj" /\ HasKey(v, "name") /\ Get(v, "name").t = "str"
    THEN Some([name |-> Get(v, "name").s]) ELSE None

ParseCommandList(v) ==
    IF v.t = "arr" /\ \A i \in 1..Len(v.items) : IsSome(ParseKiroExtCommand(v.items[i]))
    THEN Some([i \in 1..Len(v.items) |-> Unwrap(ParseKiroExtCommand(v.items[i]))])
    ELSE None

(* #[serde(untagged)] KiroCommandsPayload followed by commands(): Wrapped, *)
(* then AcpStyle, then Bare, the first shape that deserializes             *)
ParseKiroCommandsPayload(v) ==
    IF v.t = "obj" /\ HasKey(v, "commands") /\ IsSome(ParseCommandList(Get(v, "commands")))
    THEN ParseCommandList(Get(v, "commands"))
    ELSE IF v.t = "obj" /\ HasKey(v, "availableCommands")
            /\ IsSome(ParseCommandList(Get(v, "availableCommands")))
    THEN ParseCommandList(Get(v, "availableCommands"))
    ELSE ParseCommandList(v)

(* MetadataPayload: sessionId required, contextUsagePercentage defaults to 0 *)
ParseMetadataPayload(v) ==
    IF v.t = "obj" /\ HasKey(v, "sessionId") /\ Get(v, "sessionId").t = "str"
       /\ (HasKey(v, "contextUsagePercentage") => Get(v, "contextUsagePercentage").t = "num")
    THEN Some([session_id |-> Get(v, "sessionId").s,
               context_usage_percentage |->
                   IF HasKey(v, "contextUsagePercentage")
                   THEN Get(v, "contextUsagePercentage").n ELSE 0])
    ELSE None

ExtNotificationArgs(method, params) == [method |-> method, params |-> params]

ExtEvent(args) ==
    IF args.method = "kiro.dev/commands/available"
    THEN LET payload == ParseKiroCommandsPayload(args.params) IN
         IF IsSome(payload)
         THEN Some([type |-> "KiroCommandsAvailable", commands |-> Unwrap(payload)])
         ELSE None
    ELSE IF args.method = "kiro.dev/metadata"
    THEN LET payload == ParseMetadataPayload(args.params) IN
         IF IsSome(payload)
         THEN Some([type |-> "KiroMetadata", session_id |-> Unwrap(payload).session_id,
                    context_usage_pct |-> Unwrap(payload).context_usage_percentage])
         ELSE None
    ELSE None

(* A notification handler as a whole: at most one emit, then Ok(()) *)
Notify(op, args, ev) ==
    LET evs == IF IsSome(ev) THEN <<Unwrap(ev)>> ELSE <<>> IN
    /\ last.op = "none"
    /\ Len(events) < MaxNotifyQueue
    /\ events' = Emit(events, event_rx_open, evs)
    /\ last' = Call(op, None, Some(args), None, None, <<>>, NoBefore,
                    [i \in 1..Len(evs) |-> "emit"], NoAfter, evs, Ok(<<>>))
    /\ UNCHANGED <<target_os, cache, app, hooks, files, next_id, terminals, mgr_borrow, issued,
                   event_rx_open, permissions, capIn, capOut, regIn, regOut>>

SessionNotificationCall(args) == Notify("session_notification", args, SessionEvent(args))

ExtNotificationCall(args) == Notify("ext_notification", args, ExtEvent(args))

----------------------------------------------------------------------------
(* SpecNotify: the agent's notifications, next to terminal creation, with  *)
(* a consumer that reads the channel or goes away.                         *)

SessionVariants ==
    {"AgentMessageChunk", "AgentThoughtChunk", "ToolCall", "ToolCallUpdate", "Plan",
     "AvailableCommandsUpdate", "CurrentModeUpdate", "ConfigOptionUpdate",
     "UserMessageChunk"}

SessionNotifications ==
    { SessionNotification(<<"s","1">>, variant, "p") : variant \in SessionVariants }

KiroCommand == JObj(<< <<"name", JStr(<<"/","m">>)>>, <<"description", JStr(<<"p">>)>> >>)

ExtParams ==
    { JObj(<< <<"commands", JArr(<<KiroCommand>>)>> >>),
      JObj(<< <<"availableCommands", JArr(<<KiroCommand, KiroCommand>>)>> >>),
      JArr(<<KiroCommand>>),
      JArr(<<>>),
      JObj(<< <<"commands", JStr(<<"n","o">>)>> >>),
      JArr(<<JObj(<< <<"description", JStr(<<"x">>)>> >>)>>),
      JObj(<< <<"sessionId", JStr(<<"s","1">>)>>, <<"contextUsagePercentage", JNum(40)>> >>),
      JObj(<< <<"sessionId", JStr(<<"s","1">>)>> >>),
      JObj(<< <<"contextUsagePercentage", JNum(40)>> >>),
      JStr(<<"j">>),
      JNull }

ExtMethods == {"kiro.dev/commands/available", "kiro.dev/metadata", "kiro.dev/other"}

ExtNotifications == { ExtNotificationArgs(m, v) : m \in ExtMethods, v \in ExtParams }

InitNotify == InitTermHooks

NextNotify ==
    \/ \E args \in SessionNotifications : SessionNotificationCall(args)
    \/ \E args \in ExtNotifications : ExtNotificationCall(args)
    \/ \E c \in Commands, spawn_ok \in BOOLEAN :
          \E outs \in OutsFor(hooks, "Terminal", {ExecOutcome(TRUE, 0, <<>>, <<>>)}) :
             next_id < MaxCreates /\ CreateTerminal(c, outs, spawn_ok)
    \/ RecvEvent
    \/ DropReceiver
    \/ Return

SpecNotify == InitNotify /\ [][NextNotify]_vars

NotificationOps == {"session_notification", "ext_notification"}

(* The event type the specification pairs with each handled update *)
EventTypeOf(variant) ==
    CASE variant = "AgentMessageChunk" -> "AgentMessage"
      [] variant = "AgentThoughtChunk" -> "AgentThought"
      [] variant = "ToolCall" -> "ToolCallStarted"
      [] variant = "ToolCallUpdate" -> "ToolCallUpdated"
      [] variant = "Plan" -> "PlanUpdated"
      [] variant = "AvailableCommandsUpdate" -> "CommandsUpdated"
      [] variant = "CurrentModeUpdate" -> "ModeChanged"
      [] variant = "ConfigOptionUpdate" -> "ConfigOptionsUpdated"
      [] OTHER -> "none"

(* The extension payloads that deserialize, listed by shape *)
ParsableCommands ==
    { JObj(<< <<"commands", JArr(<<KiroCommand>>)>> >>),
      JObj(<< <<"availableCommands", JArr(<<KiroCommand, KiroCommand>>)>> >>),
      JArr(<<KiroCommand>>),
      JArr(<<>>) }

ParsableMetadata ==
    { JObj(<< <<"sessionId", JStr(<<"s","1">>)>>, <<"contextUsagePercentage", JNum(40)>> >>),
      JObj(<< <<"sessionId", JStr(<<"s","1">>)>> >>) }

(* C22: session_notification and ext_notification always answer Ok; a     *)
(* handled update gives exactly one event of its type, appended at the     *)
(* tail of the channel; an unhandled variant, an unknown method or a       *)
(* payload that does not deserialize gives none; with the receiver gone    *)
(* the event is dropped and the call still answers Ok; the terminal        *)
(* manager and the hook registry are left as they were.                    *)
C22_NotificationsForwarded ==
    [][ (last.op = "none" /\ last'.op \in NotificationOps) =>
           LET c == last'
               args == Unwrap(c.content)
               expected ==
                  IF c.op = "session_notification"
                  THEN (IF EventTypeOf(args.variant) # "none"
                        THEN <<EventTypeOf(args.variant)>> ELSE <<>>)
                  ELSE IF args.method = "kiro.dev/commands/available"
                          /\ args.params \in ParsableCommands
                  THEN <<"KiroCommandsAvailable">>
                  ELSE IF args.method = "kiro.dev/metadata"
                          /\ args.params \in ParsableMetadata
                  THEN <<"KiroMetadata">>
                  ELSE <<>>
           IN  /\ c.resp = Ok(<<>>)
               /\ [i \in 1..Len(c.emitted) |-> c.emitted[i].type] = expected
               /\ \A i \in 1..Len(c.emitted) :
                     "session_id" \in DOMAIN c.emitted[i] =>
                         c.emitted[i].session_id = <<"s","1">>
               /\ events' = IF event_rx_open THEN events \o c.emitted ELSE events
               /\ UNCHANGED <<terminals, next_id, issued, mgr_borrow, hooks, files,
                              event_rx_open>> ]_vars

(* Two notifications were forwarded and sit in the channel in the order    *)
(* they arrived, with a terminal and hooks in place.                       *)
C22_Witness ==
    /\ last.op = "ext_notification"
    /\ last.resp.kind = "ok"
    /\ Len(events) = 2
    /\ events[1].type = "PlanUpdated"
    /\ events[2].type = "KiroMetadata"
    /\ events[2].context_usage_pct = 0
    /\ terminals # <<>>
    /\ hooks # <<>>

(* A notification arrived after the consumer had gone and was answered Ok *)
C22_WitnessClosed ==
    /\ last.op = "session_notification"
    /\ ~event_rx_open
    /\ last.emitted # <<>>
    /\ events = <<>>
    /\ last.resp.kind = "ok"

----------------------------------------------------------------------------
(* SpecReaders: two terminals whose children write several chunks on each  *)
(* stream, the two reader tasks of each terminal, and the agent polling.   *)

MaxStreamChunks == 2

(* What the child writes on a stream, one element per read() of the reader *)
Produced(stream) ==
    IF stream = "stdout"
    THEN << <<"a","a","a","a","a","a","a","a">>, <<"b","b","b","b","b","b","b","b">> >>
    ELSE << <<"x","x","x","x","x","x","x","x">>, <<"y","y","y","y","y","y","y","y">> >>

Streams == {"stdout", "stderr"}

(* The chunk the reader of a stream gets from its next read() *)
NextChunk(term, stream) ==
    Produced(stream)[MaxStreamChunks + 1
                        - (IF stream = "stdout" THEN term.stdout_left ELSE term.stderr_left)]

(* The state after two create_terminal calls, for children that write     *)
(* MaxStreamChunks chunks on each stream                                   *)
ChattyTerminal ==
    [NewTerminalProcess EXCEPT !.stdout_left = MaxStreamChunks,
                               !.stderr_left = MaxStreamChunks]

InitReaders ==
    /\ target_os = "linux"
    /\ hooks = <<>>
    /\ files = [p \in NativePaths |-> None]
    /\ events = <<>>
    /\ event_rx_open = TRUE
    /\ permissions = <<>>
    /\ next_id = MaxTerminals
    /\ terminals = [id \in RequestIds |-> ChattyTerminal]
    /\ issued = [n \in 1..MaxTerminals |-> TerminalIdNew(n - 1)]
    /\ mgr_borrow = None
    /\ last = NoCall
    /\ capIn = IdleCap
    /\ capOut = None
    /\ regIn = IdleReg
    /\ regOut = NoDispatch
    /\ cache = HashCacheNew(0)
    /\ app = AppNew

NextReaders ==
    \/ \E id \in RequestIds, stream \in Streams :
          /\ Lookup(terminals, id)
          /\ ReaderPush(id, stream, NextChunk(terminals[id], stream))
    \/ \E id \in RequestIds : TerminalOutput(id)
    \/ \E id \in RequestIds : WaitForTerminalExit(id)
    \/ WaitResume
    \/ \E id \in RequestIds : ChildExit(id, Some(0))
    \/ Return

SpecReaders == InitReaders /\ [][NextReaders]_vars


(* The chunks of one stream among those pushed, in push order *)
OfStream(chunks, stream) ==
    LET FromStream(c) == \E k \in 1..MaxStreamChunks : c = Produced(stream)[k]
    IN  SelectSeq(chunks, FromStream)

IsPrefix(p, q) == Len(p) <= Len(q) /\ SubSeq(q, 1, Len(p)) = p

(* The step is a push by a reader of terminal id *)
PushStep(id) ==
    /\ Lookup(terminals, id)
    /\ Lookup(terminals', id)
    /\ terminals'[id].pushed # terminals[id].pushed

(* What the readers guarantee whatever the interleaving: each stream's     *)
(* chunks enter the terminal's queue in the order the stream produced      *)
(* them, once each; a push touches the queue of its own terminal only; a   *)
(* reader with a chunk in hand can always push, also while a handler is    *)
(* suspended inside the manager.                                           *)
ReadersInOrder ==
    /\ [](\A id \in DOMAIN terminals :
             LET t == terminals[id] IN
             /\ \A stream \in Streams :
                   /\ IsPrefix(OfStream(t.pushed, stream), Produced(stream))
                   /\ Len(OfStream(t.pushed, stream)) =
                         MaxStreamChunks - (IF stream = "stdout" THEN t.stdout_left
                                            ELSE t.stderr_left)
             /\ Len(t.pushed) = Len(OfStream(t.pushed, "stdout"))
                                   + Len(OfStream(t.pushed, "stderr"))
             /\ \E n \in 0..Len(t.pushed) :
                   t.output_rx = SubSeq(t.pushed, n + 1, Len(t.pushed)))
    /\ [](\A id \in DOMAIN terminals, stream \in Streams :
             ( /\ last.op = "none"
               /\ (IF stream = "stdout" THEN terminals[id].stdout_left
                   ELSE terminals[id].stderr_left) > 0 )
             => ENABLED ReaderPush(id, stream, NextChunk(terminals[id], stream)))
    /\ [][ \A id \in RequestIds : PushStep(id) =>
              /\ \A t \in DOMAIN terminals : t # id => terminals'[t] = terminals[t]
              /\ DOMAIN terminals' = DOMAIN terminals
              /\ terminals'[id].child = terminals[id].child
              /\ terminals'[id].accumulated_output = terminals[id].accumulated_output
              /\ terminals'[id].returned = terminals[id].returned
              /\ UNCHANGED <<next_id, issued, mgr_borrow, hooks, last>> ]_vars

(* C23 as stated: the chunks reach the queue, and hence the get_output     *)
(* results, in stream order with none lost or duplicated: what the polls   *)
(* have returned followed by what is queued is what was pushed.            *)
C23_ReadersAsClaimed ==
    /\ ReadersInOrder
    /\ [](\A id \in DOMAIN terminals :
             terminals[id].returned \o Flatten(terminals[id].output_rx)
                = Flatten(terminals[id].pushed))

(* C23: under every interleaving of the two readers the chunks of each     *)
(* stream reach the terminal's queue in stream order, none lost or         *)
(* duplicated, a reader writes only to its own terminal's queue and never  *)
(* waits; the get_output results carry them in that order as long as no    *)
(* call had to cut its buffer down to the cap.                             *)
C23_ReadersInOrder ==
    /\ ReadersInOrder
    /\ [](\A id \in DOMAIN terminals :
             ~terminals[id].truncated =>
                 terminals[id].returned \o Flatten(terminals[id].output_rx)
                    = Flatten(terminals[id].pushed))

(* One terminal got its chunks stdout-first and interleaved, the other     *)
(* stderr-first, and the polls have returned everything of the first while *)
(* a wait on the second is suspended.                                      *)
C23_Witness ==
    \E t0, t1 \in DOMAIN terminals :
       /\ terminals[t0].pushed = <<Produced("stdout")[1], Produced("stderr")[1],
                                   Produced("stdout")[2], Produced("stderr")[2]>>
       /\ ~terminals[t0].truncated
       /\ terminals[t0].returned = Flatten(terminals[t0].pushed)
       /\ terminals[t1].pushed # <<>>
       /\ terminals[t1].pushed[1] = Produced("stderr")[1]
       /\ mgr_borrow # None

----------------------------------------------------------------------------
(* platform/path.rs: translate_paths_in_json *)

Directions == {"WinToWsl", "WslToWin"}

TranslateLeafAlways(str, direction) ==
    IF direction = "WinToWsl" THEN WinToWsl(str)
    ELSE IF LooksLikeWslMountPath(str) THEN WslToWin(str) ELSE str

(* the Value::String arm: the text is replaced only when the detector of   *)
(* the direction accepts it                                                *)
TranslateLeaf(str, direction) ==
    IF direction = "WinToWsl"
    THEN (IF LooksLikeWindowsPath(str) THEN WinToWsl(str) ELSE str)
    ELSE (IF LooksLikeWslMountPath(str) THEN WslToWin(str) ELSE str)

RECURSIVE TranslateValue(_, _)
TranslateValue(value, direction) ==
    CASE value.t = "str" -> [value EXCEPT !.s = TranslateLeaf(@, direction)]
      [] value.t \in {"arr", "obj"} ->
            [value EXCEPT !.items = [i \in 1..Len(@) |-> TranslateValue(@[i], direction)]]
      [] OTHER -> value

TranslatePathsInJson(value, direction) == TranslateValue(value, direction)

----------------------------------------------------------------------------
(* SpecPath: the path translation functions applied to bounded inputs.     *)
(* regIn holds the function and its argument, regOut the value returned.   *)

MaxRestLen == 3

HostPrefixes == { <<>>, ExtendedPrefix }
DriveBytes == {"C", "c", "d", "1"}
ColonSeparators == { <<>>, <<"\\">>, <<"/">>, <<"\\", "\\">> }
HostRests ==
    { r \in { <<>>, <<"a">>, <<"a", "\\", "b">>, <<"a", "/", "b">>, <<"a", "\\">> } :
         Len(r) <= MaxRestLen }

DriveLikePaths ==
    { pre \o <<d, ":">> \o sep \o rest :
         pre \in HostPrefixes, d \in DriveBytes, sep \in ColonSeparators,
         rest \in HostRests }

UncPaths ==
    { <<"\\", "\\", "s", "\\", "h", "\\", "f">>,
      <<"\\", "\\", "c", ":", "\\", "f">>,
      ExtendedPrefix \o <<"U", "N", "C", "\\", "s", "\\", "h">> }

OtherHostPaths ==
    { <<>>, <<"C">>, <<"a">>, <<"a", "\\", "b">>, <<"a", "/", "b">>,
      <<"/", "h", "/", "u">>, MntPrefix \o <<"c", "/", "a">>,
      <<"L2", "cb", ":", "\\", "a">> }

HostPathInputs == DriveLikePaths \cup UncPaths \cup OtherHostPaths

MountLetters == { <<"c">>, <<"C">>, <<"d">>, <<"1">>, <<"L2", "cb">> }
MountTails ==
    { <<>>, <<"/">>, <<"/", "a">>, <<"/", "a", "/", "b">>, <<"/", "/", "a">>,
      <<"a", "t", "/", "x">>, <<"/", "a", "\\", "b">>, <<"/", "a", "/">> }

MountLikePaths == { MntPrefix \o l \o t : l \in MountLetters, t \in MountTails }

OtherAgentPaths ==
    { <<>>, <<"/", "h", "/", "u">>, MntPrefix, <<"/", "m", "n", "t">>,
      <<"m", "n", "t", "/", "c", "/", "a">>, <<"C", ":", "\\", "a">> }

AgentPathInputs == MountLikePaths \cup OtherAgentPaths

PathCall(fn, arg) == [phase |-> fn, arg |-> arg]

ApplyPath(fn, arg, out) ==
    /\ regIn.phase = "none"
    /\ regIn' = PathCall(fn, arg)
    /\ regOut' = out
    /\ UNCHANGED <<target_os, cache, app, hooks, files, events, next_id, terminals, mgr_borrow,
                   issued, event_rx_open, permissions, last, capIn, capOut>>

ApplyWinToWsl(path) == ApplyPath("win_to_wsl", path, WinToWsl(path))

ApplyWslToWin(path) == ApplyPath("wsl_to_win", path, WslToWin(path))

(* wsl_to_win(&win_to_wsl(p).to_string_lossy()), as in the round-trip tests *)
ApplyHostRoundTrip(path) ==
    ApplyPath("host_agent_host", path, WslToWin(WinToWsl(path)))

ApplyAgentRoundTrip(path) ==
    ApplyPath("agent_host_agent", path,
              IF WslToWin(path) = PanicPath THEN PanicPath ELSE WinToWsl(WslToWin(path)))

ApplyTranslate(value, direction) ==
    ApplyPath(direction, value, TranslatePathsInJson(value, direction))

StringLeafInputs ==
    { <<"C", ":", "\\", "a">>,
      ExtendedPrefix \o <<"C", ":", "\\", "a">>,
      <<"c", ":", "/", "a">>,
      <<"C", ":">>,
      <<"1", ":", "\\", "a">>,
      <<"\\", "\\", "s", "\\", "h", "\\", "f">>,
      ExtendedPrefix \o <<"U", "N", "C", "\\", "s", "\\", "h">>,
      MntPrefix \o <<"c", "/", "a">>,
      MntPrefix \o <<"c", "a", "t", "/", "x">>,
      MntPrefix \o <<"1", "/", "a">>,
      <<"h", "i">>,
      <<"a", "\\", "b">> }

LeafInputs == { JStr(str) : str \in StringLeafInputs } \cup { JNull, JBool(TRUE), JNum(42) }

ValueInputs ==
    LeafInputs
    \cup { JArr(<<a, JNum(1), b>>) : a, b \in LeafInputs }
    \cup { JObj(<< <<"/mnt/c/key", a>>,
                   <<"nested", JArr(<< JObj(<< <<"C:\\file", b>> >>), JArr(<<>>) >>)>> >>) :
              a, b \in LeafInputs }

InitPath ==
    /\ InitCommon
    /\ hooks = <<>>
    /\ files = [p \in NativePaths |-> None]

NextPath ==
    \/ \E path \in HostPathInputs : ApplyWinToWsl(path)
    \/ \E path \in AgentPathInputs : ApplyWslToWin(path)
    \/ \E path \in HostPathInputs : ApplyHostRoundTrip(path)
    \/ \E path \in AgentPathInputs : ApplyAgentRoundTrip(path)
    \/ \E value \in ValueInputs, direction \in Directions : ApplyTranslate(value, direction)

SpecPath == InitPath /\ [][NextPath]_vars

(* A drive-rooted host path: after the extended-length prefix, an ASCII    *)
(* letter and a colon                                                      *)
Unprefixed(path) == IF StartsWith(path, ExtendedPrefix) THEN Drop(path, 4) ELSE path

DriveRooted(path) ==
    LET s == Unprefixed(path) IN
    Len(s) >= 2 /\ IsAsciiAlphabetic(s[1]) /\ s[2] = ":"

IsPathSep(ch) == ch = "\\" \/ ch = "/"

Backslashed(text) == [i \in 1..Len(text) |-> IF text[i] = "/" THEN "\\" ELSE text[i]]
Slashed(text) == [i \in 1..Len(text) |-> IF text[i] = "\\" THEN "/" ELSE text[i]]

RECURSIVE SkipSeps(_)
SkipSeps(text) == IF text # <<>> /\ IsPathSep(text[1]) THEN SkipSeps(Tail(text)) ELSE text

UpperOf(ch) ==
    IF \E i \in 1..26 : Lower[i] = ch THEN Upper[CHOOSE i \in 1..26 : Lower[i] = ch] ELSE ch
LowerOf(ch) ==
    IF \E i \in 1..26 : Upper[i] = ch THEN Lower[CHOOSE i \in 1..26 : Upper[i] = ch] ELSE ch

(* canonical(p): upper-case drive letter, backslash separators, no prefix *)
Canonical(path) ==
    LET s == Unprefixed(path) IN
    <<UpperOf(s[1]), ":">> \o Backslashed(Drop(s, 2))

(* The colon of a drive-rooted path is followed by one separator exactly *)
OneSeparatorAfterColon(path) ==
    LET s == Unprefixed(path) IN
    /\ Len(s) >= 3
    /\ IsPathSep(s[3])
    /\ Len(s) >= 4 => ~IsPathSep(s[4])

(* C24 as stated: for every drive-rooted host path the round trip through  *)
(* the agent form gives canonical(p).                                      *)
C24_HostRoundTripAsClaimed ==
    (regIn.phase = "host_agent_host" /\ DriveRooted(regIn.arg))
        => regOut = Canonical(regIn.arg)

(* C24: for every drive-rooted host path the round trip gives the drive    *)
(* letter in upper case, ":\", and the rest with backslashes and without   *)
(* its leading separators; this is canonical(p) exactly when the colon of  *)
(* p is followed by one separator.                                         *)
C24_HostRoundTrip ==
    (regIn.phase = "host_agent_host" /\ DriveRooted(regIn.arg))
        => LET s == Unprefixed(regIn.arg) IN
           /\ regOut = <<UpperOf(s[1]), ":", "\\">> \o Backslashed(SkipSeps(Drop(s, 2)))
           /\ OneSeparatorAfterColon(regIn.arg) <=> regOut = Canonical(regIn.arg)

(* A prefixed path with a lower-case drive and forward slashes came back   *)
(* in canonical form.                                                      *)
C24_Witness ==
    /\ regIn.phase = "host_agent_host"
    /\ regIn.arg = ExtendedPrefix \o <<"c", ":", "/", "a", "/", "b">>
    /\ regOut = <<"C", ":", "\\", "a", "\\", "b">>

(* A mount-rooted agent path: "/mnt/", an ASCII letter, then nothing or    *)
(* "/..."                                                                  *)
MountRooted(path) ==
    /\ StartsWith(path, MntPrefix)
    /\ Len(path) >= 6
    /\ IsAsciiAlphabetic(path[6])
    /\ Len(path) >= 7 => path[7] = "/"

(* A mount-rooted path in the form host_to_agent produces *)
MountNormal(path) ==
    /\ MountRooted(path)
    /\ path[6] = LowerOf(path[6])
    /\ \A i \in 1..Len(path) : path[i] # "\\"
    /\ Len(path) # 7
    /\ Len(path) >= 8 => path[8] # "/"

(* C25 as stated: every mount-rooted agent path survives the round trip    *)
(* through the host form.                                                  *)
C25_AgentRoundTripAsClaimed ==
    (regIn.phase = "agent_host_agent" /\ MountRooted(regIn.arg)) => regOut = regIn.arg

(* C25: the round trip of a mount-rooted agent path gives "/mnt/", the     *)
(* letter in lower case and, after one "/", the rest with forward slashes  *)
(* and without its leading separators; this is p exactly when p has that   *)
(* form already.                                                           *)
C25_AgentRoundTrip ==
    (regIn.phase = "agent_host_agent" /\ MountRooted(regIn.arg))
        => LET p == regIn.arg
               rest == SkipSeps(Drop(p, 6))
           IN  /\ regOut = MntPrefix \o <<LowerOf(p[6])>>
                              \o (IF rest = <<>> THEN <<>> ELSE <<"/">> \o Slashed(rest))
               /\ MountNormal(p) <=> regOut = p

(* /mnt/d/a/b went to the host form and came back unchanged *)
C25_Witness ==
    /\ regIn.phase = "agent_host_agent"
    /\ regIn.arg = MntPrefix \o <<"d", "/", "a", "/", "b">>
    /\ regOut = regIn.arg

(* C26: host_to_agent treats a path as drive-rooted iff, the prefix        *)
(* stripped, it starts with an ASCII letter and a colon; such a path maps  *)
(* to /mnt/<lower-case letter>[/<rest>]; every other path is only          *)
(* separator-normalized.                                                   *)
C26_HostToAgent ==
    regIn.phase = "win_to_wsl"
        => LET s == Unprefixed(regIn.arg) IN
           IF DriveRooted(regIn.arg)
           THEN LET rest == Slashed(SkipSeps(Drop(s, 2))) IN
                regOut = MntPrefix \o <<LowerOf(s[1])>>
                            \o (IF rest = <<>> THEN <<>> ELSE <<"/">> \o rest)
           ELSE regOut = Slashed(s)

(* C27: agent_to_host rewrites exactly the paths "/mnt/" + letter followed *)
(* by nothing or "/...", to <LETTER>:\ and the rest with backslashes;      *)
(* every other path comes back unchanged; the function returns on every    *)
(* input.                                                                  *)
C27_AgentToHost ==
    regIn.phase = "wsl_to_win"
        => /\ regOut # PanicPath
           /\ IF MountRooted(regIn.arg)
              THEN regOut = <<UpperOf(regIn.arg[6]), ":", "\\">>
                               \o Backslashed(Drop(regIn.arg, 7))
              ELSE regOut = regIn.arg

(* The detectors as the specification words them *)
HostStyle(str) ==
    LET u == Unprefixed(str) IN
    Len(u) >= 3 /\ IsAsciiAlphabetic(u[1]) /\ u[2] = ":" /\ IsPathSep(u[3])

MountStyle(str) ==
    StartsWith(str, MntPrefix) /\ Len(str) >= 6 /\ IsAsciiAlphabetic(str[6])

(* after is before with its matching string leaves translated and nothing  *)
(* else touched, at every depth                                            *)
RECURSIVE OnlyLeavesRewritten(_, _, _)
OnlyLeavesRewritten(before, after, direction) ==
    /\ after.t = before.t
    /\ after.b = before.b
    /\ after.n = before.n
    /\ after.keys = before.keys
    /\ Len(after.items) = Len(before.items)
    /\ after.s = IF before.t = "str" /\ direction = "WinToWsl" /\ HostStyle(before.s)
                 THEN WinToWsl(before.s)
                 ELSE IF before.t = "str" /\ direction = "WslToWin" /\ MountStyle(before.s)
                 THEN WslToWin(before.s)
                 ELSE before.s
    /\ \A i \in 1..Len(before.items) :
          OnlyLeavesRewritten(before.items[i], after.items[i], direction)

Translated == regIn.phase \in Directions

(* C28: translate_paths_in_json replaces each string leaf that matches the *)
(* detector of the direction by its translation and leaves everything else *)
(* - other leaves, keys, array length and order, nesting - as it was.      *)
C28_OnlyMatchingLeaves ==
    Translated => OnlyLeavesRewritten(regIn.arg, regOut, regIn.phase)

(* Host to agent on an object: the drive path under the path-like key was  *)
(* rewritten, the key, the number and the plain text two levels down were  *)
(* not.                                                                    *)
C28_Witness ==
    /\ regIn.phase = "WinToWsl"
    /\ regIn.arg.t = "obj"
    /\ regIn.arg.items[1] = JStr(<<"c", ":", "/", "a">>)
    /\ regOut.items[1] = JStr(MntPrefix \o <<"c", "/", "a">>)
    /\ regOut.keys = <<"/mnt/c/key", "nested">>
    /\ regIn.arg.items[2].items[1].items[1] = JStr(<<"a", "\\", "b">>)
    /\ regOut.items[2] = regIn.arg.items[2]

(* The string leaves of a value, in traversal order *)
RECURSIVE StringLeaves(_)
StringLeaves(value) ==
    IF value.t = "str" THEN <<value.s>>
    ELSE Flatten([i \in 1..Len(value.items) |-> StringLeaves(value.items[i])])

(* \\server\share\..., or the same behind \\?\UNC\ *)
IsUnc(path) ==
    /\ StartsWith(path, <<"\\", "\\">>)
    /\ StartsWith(path, ExtendedPrefix)
          => StartsWith(Drop(path, 4), <<"U", "N", "C", "\\">>)

(* An extended-length prefix in front of a drive path *)
PrefixedDrive(path) ==
    /\ StartsWith(path, ExtendedPrefix)
    /\ Len(path) >= 6
    /\ IsAsciiAlphabetic(path[5])
    /\ path[6] = ":"

(* C29: host_to_agent never mounts a UNC path and the host-to-agent walk   *)
(* leaves a UNC string leaf as it is; a drive path behind the              *)
(* extended-length prefix is translated by host_to_agent, and detected and *)
(* rewritten by the walk, exactly as the same path without the prefix.     *)
C29_UncAndPrefix ==
    /\ regIn.phase = "win_to_wsl" =>
          /\ IsUnc(regIn.arg) => ~StartsWith(regOut, MntPrefix)
          /\ PrefixedDrive(regIn.arg) =>
                /\ regOut = WinToWsl(Drop(regIn.arg, 4))
                /\ StartsWith(regOut, MntPrefix)
    /\ regIn.phase = "WinToWsl" =>
          LET before == StringLeaves(regIn.arg)
              after == StringLeaves(regOut)
          IN  /\ Len(after) = Len(before)
              /\ \A i \in 1..Len(before) :
                    /\ IsUnc(before[i]) => after[i] = before[i]
                    /\ PrefixedDrive(before[i]) =>
                          /\ after[i] = TranslateLeaf(Drop(before[i], 4), "WinToWsl")
                          /\ HostStyle(Drop(before[i], 4)) => after[i] # before[i]

(* One walk met an extended UNC leaf, which it left alone, and a prefixed  *)
(* drive path, which it rewrote to /mnt/c/a.                               *)
C29_Witness ==
    /\ regIn.phase = "WinToWsl"
    /\ regIn.arg.t = "arr"
    /\ regIn.arg.items[1] = JStr(ExtendedPrefix \o <<"U", "N", "C", "\\", "s", "\\", "h">>)
    /\ regOut.items[1] = regIn.arg.items[1]
    /\ regIn.arg.items[3] = JStr(ExtendedPrefix \o <<"C", ":", "\\", "a">>)
    /\ regOut.items[3] = JStr(MntPrefix \o <<"c", "/", "a">>)

----------------------------------------------------------------------------
(* SpecLoad: load_hooks_config applied to bounded configuration files.     *)

MaxConfigLen == 2

HookNames == <<"h1", "h2", "h3", "h4">>

LoadEvents ==
    {"beforeRead", "afterRead", "beforeWrite", "afterWrite", "beforeTerminal",
     "afterTerminal", "turnEnd", "onSave", "BeforeRead", "beforeTurnEnd"}

LoadPatterns == {None, Some(GlobBad)}

(* The hook definitions of a configuration, named by position *)
ConfigsOfLen(n) ==
    { [i \in 1..n |-> ShellHookDef(HookNames[i], es[i], ps[i], FALSE)] :
         es \in [1..n -> LoadEvents], ps \in [1..n -> LoadPatterns] }

(* A configuration file: it may be unreadable, or hold text that is no     *)
(* HooksConfig                                                             *)
ConfigFile(readable, parsable, defs) ==
    [readable |-> readable, parsable |-> parsable, defs |-> defs]

ConfigFiles ==
    { ConfigFile(FALSE, FALSE, <<>>), ConfigFile(TRUE, FALSE, <<>>) }
    \cup { ConfigFile(TRUE, TRUE, defs) :
              defs \in UNION { ConfigsOfLen(n) : n \in 0..MaxConfigLen } }

(* load_hooks_config(path) *)
LoadHooksConfigFile(file) ==
    IF ~file.readable THEN [ok |-> FALSE, error |-> "Failed to read hooks config", hooks |-> <<>>]
    ELSE IF ~file.parsable
    THEN [ok |-> FALSE, error |-> "Failed to parse hooks config", hooks |-> <<>>]
    ELSE [ok |-> TRUE, error |-> "", hooks |-> LoadHooksConfig(file.defs)]

ApplyLoad(file) ==
    /\ regIn.phase = "none"
    /\ regIn' = [phase |-> "load", file |-> file]
    /\ regOut' = LoadHooksConfigFile(file)
    /\ UNCHANGED <<target_os, cache, app, hooks, files, events, next_id, terminals, mgr_borrow,
                   issued, event_rx_open, permissions, last, capIn, capOut>>

InitLoad == InitPath

NextLoad == \E file \in ConfigFiles : ApplyLoad(file)

SpecLoad == InitLoad /\ [][NextLoad]_vars

(* The fixed vocabulary and the pair of each of its names *)
Vocabulary ==
    {"beforeRead", "afterRead", "beforeWrite", "afterWrite", "beforeTerminal",
     "afterTerminal", "turnEnd"}

PairOf(event) ==
    <<IF event \in {"beforeRead", "beforeWrite", "beforeTerminal"} THEN "Before" ELSE "After",
      CASE event \in {"beforeRead", "afterRead"} -> "FsRead"
        [] event \in {"beforeWrite", "afterWrite"} -> "FsWrite"
        [] event \in {"beforeTerminal", "afterTerminal"} -> "Terminal"
        [] event = "turnEnd" -> "TurnEnd">>

InVocabulary(def) == def.event \in Vocabulary

Loaded == regIn.phase = "load" /\ regIn.file.readable /\ regIn.file.parsable

(* C30: a configuration that is read and parsed loads without failure; the *)
(* hooks are, in configuration order, the entries whose event name is in   *)
(* the vocabulary, each with the pair of its name (turnEnd only as After,  *)
(* TurnEnd); entries with other names are left out and change nothing      *)
(* about the others; an entry whose glob does not compile is loaded.       *)
C30_LoadKeepsKnownEvents ==
    Loaded =>
       LET kept == SelectSeq(regIn.file.defs, InVocabulary) IN
       /\ regOut.ok
       /\ Len(regOut.hooks) = Len(kept)
       /\ \A i \in 1..Len(kept) :
             /\ regOut.hooks[i].def = kept[i]
             /\ <<regOut.hooks[i].timing, regOut.hooks[i].target>> = PairOf(kept[i].event)
             /\ regOut.hooks[i].target = "TurnEnd" <=> kept[i].event = "turnEnd"
             /\ regOut.hooks[i].glob.tag =
                   (IF kept[i].pattern = None THEN "MatchAll" ELSE "Invalid")

(* An unknown event before a turnEnd entry with a glob that does not       *)
(* compile: only the second is loaded.                                     *)
C30_Witness ==
    /\ Loaded
    /\ Len(regIn.file.defs) = 2
    /\ regIn.file.defs[1].event = "beforeTurnEnd"
    /\ regIn.file.defs[2].event = "turnEnd"
    /\ regIn.file.defs[2].pattern = Some(GlobBad)
    /\ Len(regOut.hooks) = 1
    /\ regOut.hooks[1].def.name = "h2"
    /\ regOut.hooks[1].timing = "After"
    /\ regOut.hooks[1].glob = Invalid

----------------------------------------------------------------------------
(* hooks/builtins.rs: PathValidationHook.  Paths are texts; std::path      *)
(* compares them by components.                                           *)

RECURSIVE SplitSegments(_, _)
SplitSegments(text, cur) ==
    IF text = <<>> THEN <<cur>>
    ELSE IF Head(text) = "/" THEN <<cur>> \o SplitSegments(Tail(text), <<>>)
    ELSE SplitSegments(Tail(text), Append(cur, Head(text)))

RootDir == <<"/">>
CurDir == <<".">>
ParentDir == <<".", ".">>

IsNamed(segment) == segment # <<>> /\ segment # CurDir

(* Path::components: the root, then the segments; empty segments and '.'   *)
(* are dropped (a leading '.' of a relative path is kept), '..' is kept    *)
Components(path) ==
    LET segments == SplitSegments(path, <<>>)
        rooted == path # <<>> /\ path[1] = "/"
    IN  (IF rooted THEN <<RootDir>>
         ELSE IF segments[1] = CurDir THEN <<CurDir>> ELSE <<>>)
        \o SelectSeq(segments, IsNamed)

(* Path::starts_with: base's components are the first components of path  *)
PathStartsWith(path, base) ==
    LET cp == Components(path)
        cb == Components(base)
    IN  Len(cb) <= Len(cp) /\ SubSeq(cp, 1, Len(cb)) = cb

PathValidationHook(allowed_root) ==
    [impl |-> "PathValidation", def |-> ShellHookDef("path-validation", "", None, FALSE),
     timing |-> "Before", target |-> "FsWrite", glob |-> MatchAll,
     allowed_root |-> allowed_root]

(* PathValidationHook::run *)
PathValidationRun(h, ctx) ==
    IF IsSome(ctx.path) /\ ~PathStartsWith(Unwrap(ctx.path), h.allowed_root)
    THEN Blocked(Msg("Write blocked: {} is outside project root {}", "path-validation", 0,
                     Unwrap(ctx.path)))
    ELSE Continue

----------------------------------------------------------------------------
(* SpecGuard: PathValidationHook::run applied to bounded write contexts.   *)

MaxSegments == 3

PathSegments == { <<"p">>, <<"q">>, <<"p", "q">>, CurDir, ParentDir }

RECURSIVE JoinSegments(_)
JoinSegments(segments) ==
    IF segments = <<>> THEN <<>>
    ELSE <<"/">> \o Head(segments) \o JoinSegments(Tail(segments))

AbsolutePaths ==
    { JoinSegments(segs) :
         segs \in UNION { [1..n -> PathSegments] : n \in 0..MaxSegments } }

GuardPaths ==
    (AbsolutePaths \ {<<>>})
    \cup { <<"/">>, <<"/", "p", "/">>, <<"/", "/", "p">>, <<"p">>, <<".", "/", "p">>,
           <<"p", "/", "q">> }

AllowedRoots == { <<"/", "p">>, <<"/", "p", "/", "q">> }

GuardContexts ==
    { HookContext("FsWrite", "Before", path, Some(ContentV1), None) :
         path \in {None} \cup { Some(gp) : gp \in GuardPaths } }

ApplyPathValidation(allowed_root, ctx) ==
    /\ regIn.phase = "none"
    /\ regIn' = [phase |-> "path_validation", ctx |-> ctx, root |-> allowed_root]
    /\ regOut' = PathValidationRun(PathValidationHook(allowed_root), ctx)
    /\ UNCHANGED <<target_os, cache, app, hooks, files, events, next_id, terminals, mgr_borrow,
                   issued, event_rx_open, permissions, last, capIn, capOut>>

InitGuard == InitPath

NextGuard ==
    \E allowed_root \in AllowedRoots, ctx \in GuardContexts :
       ApplyPathValidation(allowed_root, ctx)

SpecGuard == InitGuard /\ [][NextGuard]_vars

(* The location a rooted path denotes: '..' steps back to the parent (the  *)
(* parent of the root is the root)                                         *)
RECURSIVE Denoted(_, _)
Denoted(components, at) ==
    IF components = <<>> THEN at
    ELSE LET c == Head(components) IN
         Denoted(Tail(components),
                 IF c = RootDir THEN <<>>
                 ELSE IF c = CurDir THEN at
                 ELSE IF c = ParentDir
                      THEN (IF at = <<>> THEN at ELSE SubSeq(at, 1, Len(at) - 1))
                      ELSE Append(at, c))

Rooted(path) == path # <<>> /\ path[1] = "/"

Location(path) == Denoted(Components(path), <<>>)

Outside(path, root) ==
    LET lp == Location(path)
        lr == Location(root)
    IN  ~(Len(lr) <= Len(lp) /\ SubSeq(lp, 1, Len(lr)) = lr)

Validated == regIn.phase = "path_validation"

(* C31: for a write context with a (rooted) path, PathValidationHook       *)
(* returns Blocked exactly when the location the path denotes, '..'        *)
(* included, lies outside allowed_root, and Continue otherwise; without a  *)
(* path it returns Continue.                                               *)
C31_BlocksOutsideRoot ==
    Validated =>
       /\ regIn.ctx.path = None => regOut = Continue
       /\ (IsSome(regIn.ctx.path) /\ Rooted(Unwrap(regIn.ctx.path))) =>
             /\ regOut.kind \in {"Blocked", "Continue"}
             /\ regOut.kind = "Blocked" <=> Outside(Unwrap(regIn.ctx.path), regIn.root)

----------------------------------------------------------------------------
(* hooks/config.rs: ShellHook::expand_command.  command stands for         *)
(* self.def.command.                                                       *)

FilePlaceholder == <<"$", "{", "f", "i", "l", "e", "}">>

(* str::replace: every match of pat, found from left to right without      *)
(* overlap, is replaced by rep; rep is not searched again                  *)
RECURSIVE StrReplace(_, _, _)
StrReplace(text, pat, rep) ==
    IF Len(text) < Len(pat) THEN text
    ELSE IF StartsWith(text, pat) THEN rep \o StrReplace(Drop(text, Len(pat)), pat, rep)
    ELSE <<Head(text)>> \o StrReplace(Tail(text), pat, rep)

(* str::replacen(pat, rep, 1) *)
RECURSIVE StrReplaceFirst(_, _, _)
StrReplaceFirst(text, pat, rep) ==
    IF Len(text) < Len(pat) THEN text
    ELSE IF StartsWith(text, pat) THEN rep \o Drop(text, Len(pat))
    ELSE <<Head(text)>> \o StrReplaceFirst(Tail(text), pat, rep)

(* Path::to_string_lossy: a byte that is no UTF-8 becomes U+FFFD *)
InvalidByte == "\\xFF"
ToStringLossy(path) ==
    [i \in 1..Len(path) |-> IF path[i] = InvalidByte THEN "\\uFFFD" ELSE path[i]]

ExpandCommandFirstOnly(command, ctx) ==
    IF IsSome(ctx.path)
    THEN StrReplaceFirst(command, FilePlaceholder, ToStringLossy(Unwrap(ctx.path)))
    ELSE command

ExpandCommand(command, ctx) ==
    IF IsSome(ctx.path)
    THEN StrReplace(command, FilePlaceholder, ToStringLossy(Unwrap(ctx.path)))
    ELSE command

----------------------------------------------------------------------------
(* SpecExpand: expand_command applied to bounded templates and contexts.   *)

MaxTokens == 3

TemplateTokens ==
    { <<"c", " ">>, FilePlaceholder, <<"$">>, <<"{", "f", "i", "l", "e", "}">>,
      <<"$", "{", "f", "}">>, <<"$", "{", "f", "i", "l", "e">> }

Templates ==
    { Flatten(tokens) :
         tokens \in UNION { [1..n -> TemplateTokens] : n \in 0..MaxTokens } }

ExpandContexts ==
    { HookContext("FsWrite", "After", path, None, None) :
         path \in { None, Some(<<>>), Some(<<"/", "a">>), Some(FilePlaceholder),
                    Some(<<"{", "f", "i", "l", "e", "}">>) } }

ApplyExpandCommand(command, ctx) ==
    /\ regIn.phase = "none"
    /\ regIn' = [phase |-> "expand", ctx |-> ctx, command |-> command]
    /\ regOut' = ExpandCommand(command, ctx)
    /\ UNCHANGED <<target_os, cache, app, hooks, files, events, next_id, terminals, mgr_borrow,
                   issued, event_rx_open, permissions, last, capIn, capOut>>

InitExpand == InitPath

NextExpand ==
    \E command \in Templates, ctx \in ExpandContexts : ApplyExpandCommand(command, ctx)

SpecExpand == InitExpand /\ [][NextExpand]_vars

(* Where the placeholder stands in a template *)
PlaceholderAt(text) ==
    { i \in 1..Len(text) :
         i + Len(FilePlaceholder) - 1 <= Len(text)
         /\ SubSeq(text, i, i + Len(FilePlaceholder) - 1) = FilePlaceholder }

(* The template with the path in the place of each placeholder and every   *)
(* other character kept where it was                                       *)
WithPath(text, path) ==
    LET at == PlaceholderAt(text)
        Piece(i) == IF i \in at THEN path
                    ELSE IF \E j \in at : j < i /\ i < j + Len(FilePlaceholder) THEN <<>>
                    ELSE <<text[i]>>
    IN  Flatten([i \in 1..Len(text) |-> Piece(i)])

Expanded == regIn.phase = "expand"

(* C32: expand_command puts the context's path in the place of the         *)
(* placeholder when the context has a path and changes nothing else in the *)
(* template; without a path the template is returned verbatim, placeholder *)
(* included.                                                               *)
C32_ExpandCommand ==
    Expanded =>
       IF regIn.ctx.path = None THEN regOut = regIn.command
       ELSE regOut = WithPath(regIn.command, Unwrap(regIn.ctx.path))

(* A template with the placeholder twice, once put together from two       *)
(* tokens, expanded with /a.                                               *)
C32_Witness ==
    /\ Expanded
    /\ regIn.command = FilePlaceholder \o <<"$", "{", "f", "i", "l", "e", "}">> \o <<"$">>
    /\ regIn.ctx.path = Some(<<"/", "a">>)
    /\ regOut = <<"/", "a", "/", "a", "$">>

(* The template kept verbatim for a context without a path *)
C32_WitnessNoPath ==
    /\ Expanded
    /\ regIn.ctx.path = None
    /\ PlaceholderAt(regIn.command) # {}
    /\ regOut = regIn.command

----------------------------------------------------------------------------
(* ui/cache.rs: HashCache.  map is a function from the stored keys to      *)
(* their values, order the keys in the order of their first insertion.     *)

HashCacheInsertAlwaysPushes(c, key, value) ==
    LET drain_count == IF Cardinality(DOMAIN c.map) >= c.capacity
                       THEN Len(c.order) \div 2 ELSE 0
        evicted == { c.order[i] : i \in 1..drain_count }
        kept == DOMAIN c.map \ evicted
    IN  [map |-> [k \in kept \cup {key} |-> IF k = key THEN value ELSE c.map[k]],
         order |-> Append(SubSeq(c.order, drain_count + 1, Len(c.order)), key),
         capacity |-> c.capacity]

(* HashCache::insert *)
HashCacheInsert(c, key, value) ==
    LET drain_count == IF Cardinality(DOMAIN c.map) >= c.capacity
                       THEN Len(c.order) \div 2 ELSE 0
        evicted == { c.order[i] : i \in 1..drain_count }
        kept == DOMAIN c.map \ evicted
        drained == SubSeq(c.order, drain_count + 1, Len(c.order))
    IN  [map |-> [k \in kept \cup {key} |-> IF k = key THEN value ELSE c.map[k]],
         order |-> IF key \in kept THEN drained ELSE Append(drained, key),
         capacity |-> c.capacity]

(* HashCache::get *)
HashCacheGet(c, key) == IF key \in DOMAIN c.map THEN Some(c.map[key]) ELSE None

----------------------------------------------------------------------------
(* SpecCache: inserts into and lookups in a HashCache of a bounded         *)
(* capacity, with keys and values from bounded sets.                       *)

MaxCapacity == 4
MaxKey == 5

Capacities == 0..MaxCapacity
CacheKeys == 1..MaxKey
CacheValues == {"a", "b"}

InitCache ==
    /\ target_os = "linux"
    /\ hooks = <<>>
    /\ files = [p \in NativePaths |-> None]
    /\ events = <<>>
    /\ event_rx_open = TRUE
    /\ permissions = <<>>
    /\ next_id = 0
    /\ terminals = <<>>
    /\ mgr_borrow = None
    /\ issued = <<>>
    /\ last = NoCall
    /\ capIn = IdleCap
    /\ capOut = None
    /\ regIn = IdleReg
    /\ regOut = NoDispatch
    /\ app = AppNew
    /\ cache \in { HashCacheNew(capacity) : capacity \in Capacities }

(* cache.insert(key, value); regIn keeps the call, regOut what a lookup    *)
(* of the key returned before it                                           *)
CacheInsert(key, value) ==
    /\ cache' = HashCacheInsert(cache, key, value)
    /\ regIn' = [phase |-> "insert", key |-> key, value |-> Some(value)]
    /\ regOut' = HashCacheGet(cache, key)
    /\ UNCHANGED <<target_os, app, hooks, files, events, next_id, terminals, mgr_borrow,
                   issued, event_rx_open, permissions, last, capIn, capOut>>

(* cache.get(key) *)
CacheGet(key) ==
    /\ regIn' = [phase |-> "get", key |-> key, value |-> None]
    /\ regOut' = HashCacheGet(cache, key)
    /\ UNCHANGED <<target_os, cache, app, hooks, files, events, next_id, terminals, mgr_borrow,
                   issued, event_rx_open, permissions, last, capIn, capOut>>

NextCache ==
    \/ \E key \in CacheKeys, value \in CacheValues : CacheInsert(key, value)
    \/ \E key \in CacheKeys : CacheGet(key)

SpecCache == InitCache /\ [][NextCache]_vars

Stored(c) == DOMAIN c.map

(* C33: an insert into a cache that holds at least capacity entries        *)
(* discards the oldest floor(n/2) keys of the eviction order and keeps all *)
(* newer entries, then stores the new entry; an insert into a cache with   *)
(* room discards nothing; a key that is still stored when it is inserted   *)
(* again gets the new value and keeps its one position in the order.       *)
C33_EvictsOldestHalf ==
    [][ regIn'.phase = "insert" =>
          LET key == regIn'.key
              n == Len(cache.order)
              half == IF Cardinality(Stored(cache)) >= cache.capacity THEN n \div 2 ELSE 0
              newer == SubSeq(cache.order, half + 1, n)
              InNewer(k) == \E i \in 1..Len(newer) : newer[i] = k
          IN  /\ \A i \in 1..half :
                    cache.order[i] # key => cache.order[i] \notin Stored(cache')
              /\ \A i \in 1..Len(newer) :
                    /\ newer[i] \in Stored(cache')
                    /\ newer[i] # key => cache'.map[newer[i]] = cache.map[newer[i]]
              /\ key \in Stored(cache') /\ cache'.map[key] = Unwrap(regIn'.value)
              /\ cache'.order = IF InNewer(key) THEN newer ELSE Append(newer, key)
              /\ cache'.capacity = cache.capacity ]_vars

(* A cache of capacity 4 holding keys 3, 4, 5 after the insert of 5 drove  *)
(* out 1 and 2, as in the test evicts_oldest_half_when_full.               *)
C33_Witness ==
    /\ regIn.phase = "insert"
    /\ regIn.key = 5
    /\ regOut = None
    /\ cache.capacity = 4
    /\ cache.order = <<3, 4, 5>>
    /\ Stored(cache) = {3, 4, 5}

(* A stored key inserted again into a cache with room: new value, old      *)
(* position.                                                               *)
C33_WitnessAgain ==
    /\ regIn.phase = "insert"
    /\ regIn.key = 1
    /\ regOut = Some("a")
    /\ cache.capacity = 4
    /\ cache.order = <<1, 2>>
    /\ cache.map[1] = "b"

(* C34: a cache created with capacity c >= 1 never stores more than c      *)
(* entries, and its eviction order lists exactly the stored keys, each     *)
(* once.                                                                   *)
C34_WithinCapacity ==
    cache.capacity >= 1 =>
       /\ Cardinality(Stored(cache)) <= cache.capacity
       /\ { cache.order[i] : i \in 1..Len(cache.order) } = Stored(cache)
       /\ \A i, j \in 1..Len(cache.order) : cache.order[i] = cache.order[j] => i = j

----------------------------------------------------------------------------
(* SpecAfter: every handler of the mediator, with a configuration that     *)
(* holds one hook for each After event of the vocabulary.                  *)

AfterSources ==
    << ShellHookDef("a1", "afterRead", None, TRUE),
       ShellHookDef("a2", "afterWrite", None, TRUE),
       ShellHookDef("a3", "afterTerminal", None, TRUE),
       ShellHookDef("a4", "turnEnd", None, TRUE) >>

AfterExecOutcomes ==
    { ExecOutcome(TRUE, 0, <<"o","k">>, <<>>), ExecOutcome(TRUE, 1, <<"o">>, <<"e">>) }

InitAfter ==
    /\ InitCommon
    /\ hooks = LoadHooksConfig(AfterSources)
    /\ files = [p \in NativePaths |->
                    IF p = ToNative(PathARs) THEN Some(ContentV1) ELSE None]

NextAfter ==
    \/ \E p \in AgentPaths :
          \E outs \in OutsFor(hooks, "FsRead", AfterExecOutcomes) : ReadTextFile(p, outs, TRUE)
    \/ \E p \in AgentPaths, c \in Contents, io_ok \in BOOLEAN :
          \E outs \in OutsFor(hooks, "FsWrite", AfterExecOutcomes) :
             WriteTextFile(p, c, outs, io_ok)
    \/ \E c \in Commands, spawn_ok \in BOOLEAN :
          \E outs \in OutsFor(hooks, "Terminal", AfterExecOutcomes) :
             next_id < MaxCreates /\ CreateTerminal(c, outs, spawn_ok)
    \/ \E id \in RequestIds : TerminalOutput(id)
    \/ \E id \in RequestIds : ReleaseTerminal(id)
    \/ \E id \in RequestIds : WaitForTerminalExit(id)
    \/ WaitResume
    \/ \E id \in RequestIds, kill_ok \in BOOLEAN : KillTerminalCommand(id, kill_ok)
    \/ KillResume
    \/ \E id \in RequestIds : ChildExit(id, Some(0))
    \/ \E args \in SessionNotifications : SessionNotificationCall(args)
    \/ \E args \in ExtNotifications : ExtNotificationCall(args)
    \/ \E request \in PermissionArgs :
          Len(permissions) < 1 /\ RequestPermission(request)
    \/ \E k \in PermissionIds, outcome \in PermissionOutcomes : ConsumerRespond(k, outcome)
    \/ \E k \in PermissionIds : PermissionResume(k)
    \/ RecvEvent
    \/ Return

SpecAfter == InitAfter /\ [][NextAfter]_vars

MediatorOps ==
    {"read_text_file", "write_text_file", "create_terminal", "request_permission"}
    \cup TerminalOps \cup NotificationOps

HookAt(k) == hooks[k]

(* C35: the loader accepts hooks for (After, FsRead), (After, Terminal)    *)
(* and (After, TurnEnd), and no handler of the mediator ever runs one: the *)
(* After phase is run by write_text_file alone and runs (After, FsWrite)   *)
(* hooks only; the Before phase of a call runs Before hooks only.          *)
C35_AfterHooksOnlyOnWrite ==
    /\ \A target \in {"FsRead", "FsWrite", "Terminal", "TurnEnd"} :
          \E k \in 1..Len(hooks) : hooks[k].timing = "After" /\ hooks[k].target = target
    /\ last.op \in MediatorOps \cup {"none"}
    /\ last.after.ran # <<>> => last.op = "write_text_file"
    /\ \A k \in 1..Len(last.after.ran) :
          /\ HookAt(last.after.ran[k].hook).timing = "After"
          /\ HookAt(last.after.ran[k].hook).target = "FsWrite"
    /\ \A k \in 1..Len(last.before.ran) : HookAt(last.before.ran[k].hook).timing = "Before"

(* A read that returned the file's content with the afterRead hook         *)
(* registered and not run.                                                 *)
C35_Witness ==
    /\ last.op = "read_text_file"
    /\ last.resp = Ok(ContentV1)
    /\ last.after.ran = <<>>
    /\ HookAt(1).timing = "After" /\ HookAt(1).target = "FsRead"

(* A write that ran the afterWrite hook and only that one *)
C35_WitnessWrite ==
    /\ last.op = "write_text_file"
    /\ Len(last.after.ran) = 1
    /\ last.after.ran[1].hook = 2

(* A created terminal with the afterTerminal hook registered and not run *)
C35_WitnessTerminal ==
    /\ last.op = "create_terminal"
    /\ last.resp.kind = "ok"
    /\ last.after.ran = <<>>

----------------------------------------------------------------------------
(* SpecExit: terminals whose children end with any kind of exit status,    *)
(* and the calls that wait for them or kill them.                          *)

(* ExitStatus::code of a child that ended by itself: a code, negative ones *)
(* included (an NTSTATUS on Windows), or none for a child ended by a       *)
(* signal                                                                  *)
WaitExitCodes == { Some(0), Some(2), Some(-1), Some(-3), None }

NextExit ==
    \/ \E c \in Commands, spawn_ok \in BOOLEAN :
          \E outs \in OutsFor(hooks, "Terminal", ExecOutcomes) :
             next_id < MaxTerminals /\ CreateTerminal(c, outs, spawn_ok)
    \/ \E id \in RequestIds : WaitForTerminalExit(id)
    \/ WaitResume
    \/ \E id \in RequestIds, kill_ok \in BOOLEAN : KillTerminalCommand(id, kill_ok)
    \/ KillResume
    \/ \E id \in RequestIds, code \in WaitExitCodes : ChildExit(id, code)
    \/ Return

SpecExit == InitTerm /\ [][NextExit]_vars

WaitAnswered == last.op = "wait_for_terminal_exit" /\ last.resp.kind = "ok"

WaitedChild == terminals[Unwrap(last.id)].child

(* C36: a successful wait_for_terminal_exit reports the child's exit code  *)
(* when it has one that is not negative, and 0 when the child has no exit  *)
(* code (the manager's -1) or a negative one.                              *)
C36_ReportedExitCode ==
    WaitAnswered =>
       /\ WaitedChild.state = "exited"
       /\ last.resp.value.exit_code =
             (IF IsSome(WaitedChild.code) /\ Unwrap(WaitedChild.code) >= 0
              THEN Unwrap(WaitedChild.code) ELSE 0)

(* A wait that reported 0 for a child that was killed and has no exit code *)
C36_Witness ==
    /\ WaitAnswered
    /\ WaitedChild.code = None
    /\ last.resp.value.exit_code = 0

(* A wait that reported 0 for a child that exited with -3 *)
C36_WitnessNegative ==
    /\ WaitAnswered
    /\ WaitedChild.code = Some(-3)
    /\ last.resp.value.exit_code = 0

(* A wait that reported the exit code 2 *)
C36_WitnessCode ==
    /\ WaitAnswered
    /\ WaitedChild.code = Some(2)
    /\ last.resp.value.exit_code = 2

----------------------------------------------------------------------------
(* terminal_output and the truncated flag *)

OutputAnswered == last.op = "terminal_output" /\ last.resp.kind = "ok"

(* C37: every successful terminal_output response carries truncated =      *)
(* false, whether or not its text was cut by the cap.                      *)
C37_TruncatedAlwaysFalse ==
    OutputAnswered => last.resp.value.truncated = FALSE

(* A response whose text was cut by the cap and begins with the truncation *)
(* marker, reported with truncated = false.                                *)
C37_Witness ==
    /\ OutputAnswered
    /\ StartsWith(last.resp.value.output, PREFIX)
    /\ Lookup(terminals, Unwrap(last.id))
    /\ terminals[Unwrap(last.id)].truncated
    /\ Len(last.resp.value.output) < Len(Flatten(terminals[Unwrap(last.id)].pushed))
    /\ last.resp.value.truncated = FALSE

----------------------------------------------------------------------------
(* app.rs and ui/approval.rs: the TUI consumer of the event channel.       *)

(* request.options of a permission request, as option ids *)
PermissionOptions(request) ==
    IF request = "no options" THEN <<>> ELSE <<"allow", "reject">>

(* ApprovalState::from_request *)
ApprovalStateFromRequest(request) ==
    [options |-> PermissionOptions(request), selected |-> 0]

(* ApprovalState::select_next / select_prev *)
SelectNext(st) ==
    IF st.options = <<>> THEN st
    ELSE [st EXCEPT !.selected = (@ + 1) % Len(st.options)]

SelectPrev(st) ==
    IF st.options = <<>> THEN st
    ELSE [st EXCEPT !.selected = IF @ >= 1 THEN @ - 1 ELSE Len(st.options) - 1]

(* ApprovalState::selected_option_id *)
SelectedOptionId(st) ==
    IF st.selected < Len(st.options) THEN Some(st.options[st.selected + 1]) ELSE None

Approval(state, responder) == [state |-> state, responder |-> responder]

(* A oneshot::Sender dropped without a send, and one used *)
DropResponder(perms, k) ==
    [perms EXCEPT ![k].responder = "gone", ![k].chan = "closed"]

ResponderSend(perms, k, outcome) ==
    [perms EXCEPT ![k].responder = "gone", ![k].chan = "sent", ![k].value = Some(outcome)]

HandlePermissionRequestKeepsFirst(a, perms, ev) ==
    IF IsSome(a.approval)
    THEN [app |-> a, permissions |-> DropResponder(perms, ev.responder)]
    ELSE [app |-> [a EXCEPT !.approval =
                       Some(Approval(ApprovalStateFromRequest(ev.request), ev.responder))],
          permissions |-> [perms EXCEPT ![ev.responder].responder = "consumer"]]

(* handle_acp_event, PermissionRequest arm: the assignment drops the value *)
(* self.approval held, and with it that value's responder                  *)
HandlePermissionRequest(a, perms, ev) ==
    LET held == IF IsSome(a.approval)
                THEN DropResponder(perms, Unwrap(a.approval).responder)
                ELSE perms
    IN  [app |-> [a EXCEPT !.approval =
                     Some(Approval(ApprovalStateFromRequest(ev.request), ev.responder))],
         permissions |-> [held EXCEPT ![ev.responder].responder = "consumer"]]

(* queue_hook_feedback *)
QueueHookFeedback(a, text) ==
    [a EXCEPT !.pending_hook_feedback = Append(@, text)]

(* handle_acp_event *)
HandleAcpEvent(a, perms, ev) ==
    CASE ev.type = "PermissionRequest" -> HandlePermissionRequest(a, perms, ev)
      [] ev.type = "HookFeedback" ->
            [app |-> QueueHookFeedback(a, ev.text), permissions |-> perms]
      [] OTHER -> [app |-> a, permissions |-> perms]

(* The event_rx.recv() branch of the select loop *)
AppRecvEvent ==
    /\ last.op = "none"
    /\ event_rx_open
    /\ events # <<>>
    /\ events' = Tail(events)
    /\ LET h == HandleAcpEvent(app, permissions, Head(events)) IN
       /\ app' = h.app
       /\ permissions' = h.permissions
    /\ UNCHANGED <<target_os, cache, hooks, files, next_id, terminals, mgr_borrow, issued,
                   event_rx_open, last, capIn, capOut, regIn, regOut>>

ApprovalKeys == {"Up", "Down", "Enter", "Esc", "Tab"}

(* handle_key in approval mode *)
HandleApprovalKey(a, perms, key) ==
    LET held == Unwrap(a.approval)
        taken == [a EXCEPT !.approval = None]
    IN  CASE key = "Up" ->
               [app |-> [a EXCEPT !.approval = Some([held EXCEPT !.state = SelectPrev(@)])],
                permissions |-> perms]
          [] key = "Down" ->
               [app |-> [a EXCEPT !.approval = Some([held EXCEPT !.state = SelectNext(@)])],
                permissions |-> perms]
          [] key = "Enter" ->
               [app |-> taken,
                permissions |->
                   IF IsSome(SelectedOptionId(held.state))
                   THEN ResponderSend(perms, held.responder,
                                      <<"selected", Unwrap(SelectedOptionId(held.state))>>)
                   ELSE DropResponder(perms, held.responder)]
          [] key = "Esc" ->
               [app |-> taken,
                permissions |-> ResponderSend(perms, held.responder, <<"cancelled">>)]
          [] OTHER -> [app |-> a, permissions |-> perms]

(* A key press while the approval popup is shown; regIn keeps the key *)
AppApprovalKey(key) ==
    /\ last.op = "none"
    /\ IsSome(app.approval)
    /\ LET h == HandleApprovalKey(app, permissions, key) IN
       /\ app' = h.app
       /\ permissions' = h.permissions
    /\ regIn' = [phase |-> "key", key |-> key]
    /\ UNCHANGED <<target_os, cache, hooks, files, events, next_id, terminals, mgr_borrow,
                   issued, event_rx_open, last, capIn, capOut, regOut>>

----------------------------------------------------------------------------
(* SpecApproval: concurrent request_permission calls against the TUI.      *)

ApprovalArgs == {"edit a.rs", "no options"}

NextApproval ==
    \/ \E request \in ApprovalArgs :
          Len(permissions) < MaxPermissions /\ RequestPermission(request)
    \/ AppRecvEvent
    \/ \E key \in ApprovalKeys : AppApprovalKey(key)
    \/ \E k \in PermissionIds : PermissionResume(k)
    \/ Return

SpecApproval == InitPerm /\ [][NextApproval]_vars

HeldByConsumer == { k \in DOMAIN permissions : permissions[k].responder = "consumer" }

Received == { k \in DOMAIN permissions : permissions[k].responder # "queued" }

MostRecent(k) == k \in Received /\ \A j \in Received : j <= k

(* C38: the consumer holds at most one responder, that of its approval     *)
(* popup; a PermissionRequest that arrives while an earlier one is pending *)
(* replaces it and drops its responder, so that the earlier call fails     *)
(* with 'channel closed'; an answer is sent only for the most recent       *)
(* request received, as the selected option on Enter or as cancelled on    *)
(* Esc.                                                                    *)
C38_OnePendingPermission ==
    /\ [](/\ Cardinality(HeldByConsumer) <= 1
          /\ HeldByConsumer =
                (IF IsSome(app.approval) THEN {Unwrap(app.approval).responder} ELSE {})
          /\ \A k \in DOMAIN permissions :
                (permissions[k].chan = "closed" /\ permissions[k].call = "returned")
                   => permissions[k].resp = ChannelClosed)
    /\ [][ /\ ( /\ events # <<>> /\ events' = Tail(events)
                /\ Head(events).type = "PermissionRequest"
                /\ IsSome(app.approval) )
              => LET earlier == Unwrap(app.approval).responder IN
                 /\ permissions'[earlier].chan = "closed"
                 /\ permissions'[earlier].responder = "gone"
                 /\ Unwrap(app'.approval).responder = Head(events).responder
           /\ \A k \in DOMAIN permissions :
                 (permissions[k].chan = "open" /\ permissions'[k].chan = "sent")
                    => /\ MostRecent(k)
                       /\ IsSome(app.approval) /\ Unwrap(app.approval).responder = k
                       /\ app'.approval = None
                       /\ \/ /\ regIn'.key = "Enter"
                             /\ Unwrap(permissions'[k].value)[1] = "selected"
                          \/ /\ regIn'.key = "Esc"
                             /\ permissions'[k].value = Some(<<"cancelled">>) ]_vars

(* The first call has failed with 'channel closed' because the second      *)
(* request replaced it, and the second was answered with the option        *)
(* selected.                                                               *)
C38_Witness ==
    /\ Len(permissions) = 2
    /\ permissions[1].call = "returned"
    /\ permissions[1].resp = ChannelClosed
    /\ permissions[2].call = "returned"
    /\ permissions[2].resp = Ok(<<"selected", "reject">>)

----------------------------------------------------------------------------
(* app.rs: prompts, turn completion and hook feedback *)

Prompt(kind, text) == [kind |-> kind, text |-> text]

(* The task spawned around conn.prompt: the prompt is handed to the agent  *)
(* and the toolbar shows busy                                              *)
SpawnPrompt(a, kind, text) ==
    [a EXCEPT !.is_busy = TRUE,
              !.in_flight = Append(@, kind),
              !.prompts = Append(@, Prompt(kind, text))]

(* flush_next_hook_feedback *)
FlushNextHookFeedback(a) ==
    IF a.pending_hook_feedback = <<>> THEN a
    ELSE IF a.session_id = None THEN [a EXCEPT !.pending_hook_feedback = <<>>]
    ELSE SpawnPrompt([a EXCEPT !.pending_hook_feedback = Tail(@)],
                     "feedback", Head(a.pending_hook_feedback))

(* on_turn_end *)
OnTurnEnd(a) == FlushNextHookFeedback([a EXCEPT !.is_busy = FALSE])

UnchangedButApp ==
    UNCHANGED <<target_os, cache, hooks, files, events, next_id, terminals, mgr_borrow,
                issued, event_rx_open, permissions, last, capIn, capOut, regIn, regOut>>

(* create_new_session, the agent answering with a session id *)
AppCreateSession ==
    /\ last.op = "none"
    /\ app.session_id = None
    /\ app' = [app EXCEPT !.session_id = Some("s1")]
    /\ UnchangedButApp

(* send_prompt with text in the input box *)
AppSendPrompt(text) ==
    /\ last.op = "none"
    /\ ~app.is_busy
    /\ IsSome(app.session_id)
    /\ app' = SpawnPrompt(app, "user", text)
    /\ UnchangedButApp

(* conn.prompt resolves in the oldest spawned task, which then signals     *)
(* prompt_done                                                             *)
PromptTaskDone ==
    /\ last.op = "none"
    /\ app.in_flight # <<>>
    /\ app' = [app EXCEPT !.in_flight = Tail(@), !.prompt_done = @ + 1]
    /\ UnchangedButApp

(* The prompt_done_rx.recv() branch of the select loop *)
AppTurnEnd ==
    /\ last.op = "none"
    /\ app.prompt_done > 0
    /\ app' = OnTurnEnd([app EXCEPT !.prompt_done = @ - 1])
    /\ UnchangedButApp

----------------------------------------------------------------------------
(* SpecFeedback: user turns during which the agent writes files, an        *)
(* afterWrite hook with feedback, and the TUI's event loop.                *)

MaxPrompts == 2
MaxFeedback == 2

FeedbackSources == << ShellHookDef("fmt", "afterWrite", None, TRUE) >>

FeedbackExecOutcomes ==
    { ExecOutcome(TRUE, 0, <<"1">>, <<>>), ExecOutcome(TRUE, 0, <<"2">>, <<>>) }

OfKind(a, kind) ==
    LET IsKind(pr) == pr.kind = kind IN SelectSeq(a.prompts, IsKind)

(* The feedback texts the hooks have produced so far, wherever they are *)
FeedbackProduced ==
    Len(events) + Len(app.pending_hook_feedback) + Len(OfKind(app, "feedback"))

InitFeedback ==
    /\ InitCommon
    /\ hooks = LoadHooksConfig(FeedbackSources)
    /\ files = [p \in NativePaths |-> None]

NextFeedback ==
    \/ AppCreateSession
    \/ Len(OfKind(app, "user")) < MaxPrompts /\ AppSendPrompt(<<"u">>)
    \/ \E outs \in OutsFor(hooks, "FsWrite", FeedbackExecOutcomes) :
          /\ app.in_flight # <<>>
          /\ FeedbackProduced < MaxFeedback
          /\ WriteTextFile(PathARs, ContentV1, outs, TRUE)
    \/ PromptTaskDone
    \/ AppRecvEvent
    \/ AppTurnEnd
    \/ Return

SpecFeedback == InitFeedback /\ [][NextFeedback]_vars

(* The event loop polls every branch of its select that is ready, the      *)
(* agent ends every turn, and responses are taken; the user is free never  *)
(* to type again.                                                          *)
SpecFeedbackLive ==
    /\ SpecFeedback
    /\ WF_vars(AppRecvEvent)
    /\ WF_vars(AppTurnEnd)
    /\ WF_vars(PromptTaskDone)
    /\ WF_vars(Return)

FeedbackSent == OfKind(app, "feedback")

(* The feedback queue is first-in-first-out, a feedback text goes to the   *)
(* agent only from on_turn_end, one per turn completed, and without a      *)
(* session the queue is cleared and nothing is sent.                       *)
FeedbackQueueDiscipline ==
    [][ /\ app'.pending_hook_feedback # app.pending_hook_feedback =>
              \/ /\ events # <<>> /\ Head(events).type = "HookFeedback"
                 /\ app'.pending_hook_feedback =
                       Append(app.pending_hook_feedback, Head(events).text)
                 /\ app'.prompts = app.prompts
              \/ /\ app'.prompt_done = app.prompt_done - 1
                 /\ IF IsSome(app.session_id)
                    THEN /\ app'.pending_hook_feedback = Tail(app.pending_hook_feedback)
                         /\ app'.prompts = Append(app.prompts,
                               Prompt("feedback", Head(app.pending_hook_feedback)))
                    ELSE /\ app'.pending_hook_feedback = <<>>
                         /\ app'.prompts = app.prompts
        /\ Len(OfKind(app', "feedback")) > Len(FeedbackSent) =>
              /\ app'.prompt_done = app.prompt_done - 1
              /\ Len(app'.prompts) = Len(app.prompts) + 1 ]_vars

(* C39: hook feedback is queued first-in-first-out and sent only from      *)
(* on_turn_end, one text per completed turn; with a session, every queued  *)
(* text is eventually sent, whichever of the HookFeedback event and the    *)
(* turn-completion signal is processed first; without a session the queue  *)
(* is cleared without sending.                                             *)
C39_FeedbackEventuallySent ==
    /\ FeedbackQueueDiscipline
    /\ (IsSome(app.session_id) /\ app.pending_hook_feedback # <<>>)
          ~> (app.pending_hook_feedback = <<>>)

====
